---- MODULE Spec2Model ----
(***************************************************************************)
(* Model of the member-portal client: the Firebase REST token session      *)
(* (services/firebaseAuth.ts) and the authenticated request gateway and    *)
(* profile aggregator built on it (services/api.ts).                       *)
(*                                                                         *)
(* JavaScript runs one task at a time; an async function runs atomically   *)
(* from one network await to the next.  Every action below is one such     *)
(* atomic segment.  An `await` of a call that returned without touching    *)
(* the network is folded into the segment that follows it.                 *)
(***************************************************************************)
EXTENDS Integers, Sequences, FiniteSets, TLC

VARIABLES
    firebaseAuthService,   \* the singleton: accessToken, refreshToken, tokenExpiresAt
    now,                   \* Date.now(), in milliseconds
    tasks,                 \* the async calls in progress, one record per caller
    returned,              \* the call that returned last, until a caller next suspends
    medicalHistoryByFighter,   \* mockData.ts: the entries of each profile id
    suspensionByFighter,       \* mockData.ts: the suspension slot of each profile id
    appended,              \* the addMedicalEntry calls that have appended, per profile id
    started                \* the calls of the mock service begun so far

\* the state of services/mockData.ts
mockData == <<medicalHistoryByFighter, suspensionByFighter, appended, started>>

vars == <<firebaseAuthService, now, tasks, returned, mockData>>

-----------------------------------------------------------------------------
(* Bounds and value sets *)

\* callers that may have an operation in flight at the same time
NumTasks == 2

Tasks == 1..NumTasks

\* number of clock advances explored
MaxTicks == 4

\* null of a string-valued field
NULL == "null"

\* null of the numeric field tokenExpiresAt
NullTime == -1

\* parseInt of a string without a leading digit
NaN == -2

FIVE_MINUTES == 300000

\* the clock advances by half the safety margin at a time
TickMs == FIVE_MINUTES \div 2

StartTime == 4 * FIVE_MINUTES

RefreshTokens == {"r1", "r2"}

AccessTokens == {"a1", "a2"}

\* expires_in as the provider sends it: a decimal string, in seconds
ExpiresInValues == {<<"3", "0", "0">>, <<"6", "0", "0">>}

\* error.message of a provider error body ("" when the body has none)
ProviderMessages == {"INVALID_LOGIN_CREDENTIALS", ""}

\* message of the exception fetch() or response.json() rejects with
ThrownMessages == {"Failed to fetch"}

-----------------------------------------------------------------------------
(* JavaScript helpers *)

\* a || b on strings: the empty (or missing) string is falsy
Or(a, b) == IF a = "" THEN b ELSE a

Digits == {"0", "1", "2", "3", "4", "5", "6", "7", "8", "9"}

DigitValue(c) ==
    CASE c = "0" -> 0 [] c = "1" -> 1 [] c = "2" -> 2 [] c = "3" -> 3
      [] c = "4" -> 4 [] c = "5" -> 5 [] c = "6" -> 6 [] c = "7" -> 7
      [] c = "8" -> 8 [] c = "9" -> 9

RECURSIVE parseDigits(_, _, _)
parseDigits(str, i, acc) ==
    IF i > Len(str) \/ str[i] \notin Digits
    THEN acc
    ELSE parseDigits(str, i + 1, acc * 10 + DigitValue(str[i]))

\* parseInt(str): the value of the leading run of decimal digits, NaN if none
parseInt(str) ==
    IF Len(str) = 0 \/ str[1] \notin Digits THEN NaN ELSE parseDigits(str, 1, 0)

\* Date.now() + parseInt(expires_in) * 1000
ExpiryFrom(t, expires_in) ==
    LET n == parseInt(expires_in) IN IF n = NaN THEN NaN ELSE t + n * 1000

\* truthiness of tokenExpiresAt: null, 0 and NaN are falsy
TruthyTime(x) == x # NullTime /\ x # NaN /\ x # 0

\* truthiness of a token field
TruthyToken(x) == x # NULL /\ x # ""

-----------------------------------------------------------------------------
(* Records *)

NoReply == [kind |-> "none", token |-> NULL, expires_in |-> <<>>, message |-> "",
            localId |-> NULL, email |-> NULL]

\* identity provider answers 2xx with a JSON body
OkReply(tok, exp) == [kind |-> "ok", token |-> tok, expires_in |-> exp, message |-> "",
                      localId |-> "uid-1", email |-> "user@example.com"]

\* identity provider answers non-2xx with a JSON error body
ErrorReply(msg) == [NoReply EXCEPT !.kind = "error", !.message = msg]

\* fetch() rejects, or response.json() rejects
ThrowReply(msg) == [NoReply EXCEPT !.kind = "throw", !.message = msg]

SignInReplies ==
    {OkReply(r, <<"3", "6", "0", "0">>) : r \in RefreshTokens}
        \cup {ErrorReply(m) : m \in ProviderMessages}
        \cup {ThrowReply(m) : m \in ThrownMessages}

ExchangeReplies ==
    {OkReply(a, e) : a \in AccessTokens, e \in ExpiresInValues}
        \cup {ErrorReply(m) : m \in ProviderMessages}
        \cup {ThrowReply(m) : m \in ThrownMessages}

\* one fetch(): where it goes and the credential it carries
Call(to, arg) == [to |-> to, arg |-> arg]

\* undefined: a missing optional field, or the data of a failed ApiResponse
Undefined == [t |-> "undefined"]

NoData == Undefined

\* ApiResponse<T>; tag "throw" stands for a rejected promise
Success(d) == [tag |-> "success", data |-> d, error |-> ""]
Failure(e) == [tag |-> "failure", data |-> NoData, error |-> e]
Thrown(m)  == [tag |-> "throw", data |-> NoData, error |-> m]

\* return value of getBearerToken: a token or null
Returned(v) == [tag |-> "return", data |-> NoData, error |-> "", value |-> v]

NoResult == [tag |-> "none", data |-> NoData, error |-> ""]

\* a caller: the operation it runs, where it is suspended, the locals that
\* live across its awaits, the fetches it has issued, the last answer it got
\* and what it returned
IdleTask == [op |-> "none", pc |-> "idle", signInResult |-> NoReply,
             stage |-> "none", endpoint |-> "none", bearerToken |-> NULL,
             profile |-> Undefined, piiResponse |-> NoResult, roleResponse |-> NoResult,
             calls |-> <<>>, reply |-> NoReply, result |-> NoResult]

NoSession == [accessToken |-> NULL, refreshToken |-> NULL, tokenExpiresAt |-> NullTime]

-----------------------------------------------------------------------------
(* FirebaseAuthService *)

\* signOut() as it would be if it forgot the expiry
signOutKeepsExpiry(s) == [s EXCEPT !.accessToken = NULL, !.refreshToken = NULL]

\* signOut(): clears the three fields
signOut(s) ==
    [s EXCEPT !.accessToken = NULL, !.refreshToken = NULL, !.tokenExpiresAt = NullTime]

\* firebaseSignIn(): the ApiResponse built from the provider's answer
firebaseSignIn(reply) ==
    CASE reply.kind = "throw" -> Thrown(reply.message)
      [] reply.kind = "error" -> Failure(Or(reply.message, "Firebase sign in failed"))
      [] OTHER -> Success(reply)

\* exchangeRefreshToken(): the ApiResponse built from the provider's answer
exchangeRefreshToken(reply) ==
    CASE reply.kind = "throw" -> Thrown(reply.message)
      [] reply.kind = "error" -> Failure(Or(reply.message, "Token exchange failed"))
      [] OTHER -> Success(reply)

\* the refresh test as it would be with a margin of ten minutes
needsRefreshEager(s, t) ==
    TruthyTime(s.tokenExpiresAt) /\ t > s.tokenExpiresAt - 2 * FIVE_MINUTES

\* getBearerToken(): does the stored token need a refresh at time t
needsRefresh(s, t) ==
    TruthyTime(s.tokenExpiresAt) /\ t > s.tokenExpiresAt - FIVE_MINUTES

\* getBearerToken() as it would be if it asked for the access token only
getBearerTokenEnterAccessOnly(s, t) ==
    IF ~TruthyToken(s.accessToken)
    THEN [kind |-> "return", value |-> NULL, arg |-> NULL]
    ELSE IF needsRefresh(s, t)
    THEN [kind |-> "await", value |-> NULL, arg |-> s.refreshToken]
    ELSE [kind |-> "return", value |-> s.accessToken, arg |-> NULL]

\* getBearerToken() up to its first await: "return" a value, or "await" the
\* exchange issued with the stored refresh token
getBearerTokenEnter(s, t) ==
    IF ~TruthyToken(s.accessToken) \/ ~TruthyToken(s.refreshToken)
    THEN [kind |-> "return", value |-> NULL, arg |-> NULL]
    ELSE IF needsRefresh(s, t)
    THEN [kind |-> "await", value |-> NULL, arg |-> s.refreshToken]
    ELSE [kind |-> "return", value |-> s.accessToken, arg |-> NULL]

\* getBearerToken() as it would be if a successful refresh used up the
\* refresh token
getBearerTokenResumeForgets(s, t, reply) ==
    LET refreshResult == exchangeRefreshToken(reply) IN
    CASE refreshResult.tag = "throw" ->
            [session |-> s, result |-> Thrown(refreshResult.error)]
      [] refreshResult.tag = "success" ->
            [session |-> [s EXCEPT !.accessToken = refreshResult.data.token,
                                   !.refreshToken = NULL,
                                   !.tokenExpiresAt =
                                       ExpiryFrom(t, refreshResult.data.expires_in)],
             result |-> Returned(refreshResult.data.token)]
      [] OTHER ->
            [session |-> signOut(s), result |-> Returned(NULL)]

\* getBearerToken() after the exchange has settled: the session it leaves
\* and what it returns
getBearerTokenResume(s, t, reply) ==
    LET refreshResult == exchangeRefreshToken(reply) IN
    CASE refreshResult.tag = "throw" ->
            [session |-> s, result |-> Thrown(refreshResult.error)]
      [] refreshResult.tag = "success" ->
            [session |-> [s EXCEPT !.accessToken = refreshResult.data.token,
                                   !.tokenExpiresAt =
                                       ExpiryFrom(t, refreshResult.data.expires_in)],
             result |-> Returned(refreshResult.data.token)]
      [] OTHER ->
            [session |-> signOut(s), result |-> Returned(NULL)]

\* signInWithEmailAndPassword() as it would be without the check of
\* signInResult: it goes on to the exchange whatever the sign-in answered
signInAfterSignInUnchecked(task, reply) ==
    [task EXCEPT !.pc = "exchange", !.reply = reply, !.signInResult = reply,
                 !.calls = Append(@, Call("token", reply.token))]

\* signInWithEmailAndPassword() after firebaseSignIn has settled
signInAfterSignIn(task, reply) ==
    LET signInResult == firebaseSignIn(reply) IN
    CASE signInResult.tag = "throw" ->
            [task EXCEPT !.pc = "done", !.reply = reply,
                         !.result = Failure(Or(signInResult.error, "Authentication failed"))]
      [] signInResult.tag = "failure" ->
            [task EXCEPT !.pc = "done", !.reply = reply,
                         !.result = Failure(Or(signInResult.error, "Firebase sign in failed"))]
      [] OTHER ->
            [task EXCEPT !.pc = "exchange", !.reply = reply,
                         !.signInResult = signInResult.data,
                         !.calls = Append(@, Call("token", signInResult.data.token))]

\* signInWithEmailAndPassword() as it would be if a failed exchange signed
\* the user out
signInAfterExchangeClears(s, t, signInData, reply) ==
    LET tokenResult == exchangeRefreshToken(reply) IN
    CASE tokenResult.tag = "throw" ->
            [session |-> signOut(s),
             result |-> Failure(Or(tokenResult.error, "Authentication failed"))]
      [] tokenResult.tag = "failure" ->
            [session |-> signOut(s),
             result |-> Failure(Or(tokenResult.error, "Failed to exchange tokens"))]
      [] OTHER ->
            [session |-> [accessToken |-> tokenResult.data.token,
                          refreshToken |-> signInData.token,
                          tokenExpiresAt |-> ExpiryFrom(t, tokenResult.data.expires_in)],
             result |-> Success([token |-> tokenResult.data.token,
                                 uid |-> signInData.localId,
                                 email |-> signInData.email])]

\* signInWithEmailAndPassword() after exchangeRefreshToken has settled:
\* the session it leaves and the ApiResponse it returns
signInAfterExchange(s, t, signInData, reply) ==
    LET tokenResult == exchangeRefreshToken(reply) IN
    CASE tokenResult.tag = "throw" ->
            [session |-> s,
             result |-> Failure(Or(tokenResult.error, "Authentication failed"))]
      [] tokenResult.tag = "failure" ->
            [session |-> s,
             result |-> Failure(Or(tokenResult.error, "Failed to exchange tokens"))]
      [] OTHER ->
            [session |-> [accessToken |-> tokenResult.data.token,
                          refreshToken |-> signInData.token,
                          tokenExpiresAt |-> ExpiryFrom(t, tokenResult.data.expires_in)],
             result |-> Success([token |-> tokenResult.data.token,
                                 uid |-> signInData.localId,
                                 email |-> signInData.email])]

-----------------------------------------------------------------------------
(* Strings and values of api.ts.  A string is a sequence of symbols; the    *)
(* symbol " " is white space.  A value is a record tagged with its type.    *)

Str(chars) == [t |-> "string", v |-> chars]
Bool(b) == [t |-> "boolean", v |-> b]
List(items) == [t |-> "list", v |-> items]
Obj(pairs) == [t |-> "object", v |-> pairs]
Pair(k, val) == [key |-> k, val |-> val]

RECURSIVE TrimLeft(_)
TrimLeft(s) == IF Len(s) > 0 /\ Head(s) = " " THEN TrimLeft(Tail(s)) ELSE s

RECURSIVE TrimRight(_)
TrimRight(s) ==
    IF Len(s) > 0 /\ s[Len(s)] = " " THEN TrimRight(SubSeq(s, 1, Len(s) - 1)) ELSE s

\* String.prototype.trim
Trim(s) == TrimRight(TrimLeft(s))

RECURSIVE Join(_, _)
\* Array.prototype.join on a list of strings
Join(strs, sep) ==
    IF Len(strs) = 0 THEN <<>>
    ELSE IF Len(strs) = 1 THEN strs[1]
    ELSE strs[1] \o sep \o Join(Tail(strs), sep)

CommaSpace == <<",", " ">>

\* !value
Falsy(x) ==
    \/ x.t \in {"undefined", "null"}
    \/ x.t = "string" /\ Len(x.v) = 0
    \/ x.t = "boolean" /\ ~x.v

\* typeof value === 'string' && value.trim().length > 0
NonBlankString(x) == x.t = "string" /\ Len(Trim(x.v)) > 0

\* item[key]
Lookup(pairs, key) ==
    IF \E i \in 1..Len(pairs) : pairs[i].key = key
    THEN pairs[CHOOSE i \in 1..Len(pairs) : pairs[i].key = key].val
    ELSE Undefined

preferredKeys ==
    <<"value", "name", "relationship", "phone", "email", "line1", "line2",
      "city", "county", "postcode", "country">>

\* String(value) of a primitive
StringOf(x) ==
    CASE x.t = "string" -> x.v
      [] x.t = "boolean" -> IF x.v THEN <<"true">> ELSE <<"false">>
      [] OTHER -> <<x.t>>

\* JSON.stringify of one value of an object
JsonValue(x) == IF x.t = "string" THEN <<"\"">> \o x.v \o <<"\"">> ELSE StringOf(x)

\* JSON.stringify(item) of a flat object
JsonStringify(pairs) ==
    LET members == [i \in 1..Len(pairs) |->
                       <<"\"", pairs[i].key, "\"", ":">> \o JsonValue(pairs[i].val)]
    IN <<"{">> \o Join(members, <<",">>) \o <<"}">>

\* the display string of one item, before trimming
normaliseItem(item) ==
    IF Falsy(item) THEN <<>>
    ELSE IF item.t = "string" THEN item.v
    ELSE IF item.t = "list"
    THEN Join([i \in 1..Len(SelectSeq(item.v, LAMBDA e : ~Falsy(e))) |->
                  StringOf(SelectSeq(item.v, LAMBDA e : ~Falsy(e))[i])], CommaSpace)
    ELSE IF item.t = "object"
    THEN LET looked == [i \in 1..Len(preferredKeys) |-> Lookup(item.v, preferredKeys[i])]
             preferredValues == SelectSeq(looked, NonBlankString)
             values == [i \in 1..Len(item.v) |-> item.v[i].val]
             fallbackValues == SelectSeq(values, NonBlankString)
         IN IF Len(preferredValues) > 0
            THEN Join([i \in 1..Len(preferredValues) |-> preferredValues[i].v], CommaSpace)
            ELSE IF Len(fallbackValues) > 0
            THEN Join([i \in 1..Len(fallbackValues) |-> fallbackValues[i].v], CommaSpace)
            ELSE JsonStringify(item.v)
    ELSE StringOf(item)

\* normaliseValueList() as it would be if it returned the list it is left
\* with even when that list is empty
normaliseValueListKeepsEmpty(items) ==
    IF items.t # "list" THEN Undefined
    ELSE LET mapped == [i \in 1..Len(items.v) |-> Trim(normaliseItem(items.v[i]))]
         IN List(SelectSeq(mapped, LAMBDA s : Len(s) > 0))

\* normaliseValueList(items): string[] | undefined
normaliseValueList(items) ==
    IF items.t # "list" THEN Undefined
    ELSE LET mapped == [i \in 1..Len(items.v) |-> Trim(normaliseItem(items.v[i]))]
             normalised == SelectSeq(mapped, LAMBDA s : Len(s) > 0)
         IN IF Len(normalised) > 0 THEN List(normalised) ELSE Undefined

\* JSON.stringify(item) of an array of primitives
JsonArray(items) ==
    LET members == [i \in 1..Len(items) |->
                       IF items[i].t = "undefined" THEN <<"null">> ELSE JsonValue(items[i])]
    IN <<"[">> \o Join(members, <<",">>) \o <<"]">>

\* the display string of one item in the normaliser of mockData.ts, which
\* has no case for arrays: an array is an object without the candidate keys
mockNormaliseItem(item) ==
    IF Falsy(item) THEN <<>>
    ELSE IF item.t = "string" THEN item.v
    ELSE IF item.t = "list"
    THEN LET fallbackValues == SelectSeq(item.v, NonBlankString)
         IN IF Len(fallbackValues) > 0
            THEN Join([i \in 1..Len(fallbackValues) |-> fallbackValues[i].v], CommaSpace)
            ELSE JsonArray(item.v)
    ELSE normaliseItem(item)

\* normaliseValueList(items) of mockData.ts
mockNormaliseValueList(items) ==
    IF items.t # "list" THEN Undefined
    ELSE LET mapped == [i \in 1..Len(items.v) |-> Trim(mockNormaliseItem(items.v[i]))]
             normalised == SelectSeq(mapped, LAMBDA s : Len(s) > 0)
         IN IF Len(normalised) > 0 THEN List(normalised) ELSE Undefined

\* String.prototype.includes, on whole symbols
Includes(s, sub) ==
    \E i \in 0..(Len(s) - Len(sub)) : SubSeq(s, i + 1, i + Len(sub)) = sub

MedicMarker == <<"personalise", ":", "role", ":", "medic">>
CoachMarker == <<"personalise", ":", "role", ":", "coach">>

\* getUserTypeFromScopes() as it would be if a scope had to equal a marker
getUserTypeExact(scopes) ==
    IF \E i \in 1..Len(scopes) : scopes[i] \in {MedicMarker, CoachMarker}
    THEN "medic"
    ELSE "fighter"

\* getUserTypeFromScopes(scopes)
getUserTypeFromScopes(scopes) ==
    IF \E i \in 1..Len(scopes) :
           Includes(scopes[i], MedicMarker) \/ Includes(scopes[i], CoachMarker)
    THEN "medic"
    ELSE "fighter"

\* obj?.field of a response body that may be undefined
Field(obj, name) ==
    IF obj = Undefined \/ name \notin DOMAIN obj THEN Undefined ELSE obj[name]

\* buildUserProfile(uid, token, profile, pii, fighter, coach)
buildUserProfile(uid, token, profile, pii, fighter, coach) ==
    LET userType == getUserTypeFromScopes(profile.scopes)
        roleResponse == IF userType = "medic" THEN coach ELSE fighter
    IN [uid |-> uid,
        firebaseToken |-> token,
        profileId |-> profile.profileId,
        memberCode |-> profile.memberCode,
        name |-> profile.name,
        email |-> profile.email,
        emailVerified |-> profile.emailVerified,
        mobile |-> profile.mobile,
        mobileVerified |-> profile.mobileVerified,
        scopes |-> profile.scopes,
        userType |-> userType,
        dateOfBirth |-> Field(pii, "dateOfBirth"),
        biologicalSex |-> Field(pii, "biologicalSex"),
        addresses |-> normaliseValueList(Field(pii, "addresses")),
        emergencyContacts |-> normaliseValueList(Field(pii, "emergencyContacts")),
        status |-> Field(roleResponse, "status")]

-----------------------------------------------------------------------------
(* What the backend may answer *)

FighterScope == <<"personalise", ":", "role", ":", "fighter">>

ScopeLists ==
    {<<FighterScope>>, <<FighterScope, MedicMarker>>, <<<<"x", ":">> \o CoachMarker>>}

ProfileBodies ==
    {[profileId |-> "p1", memberCode |-> "MC1", name |-> "Sam", email |-> "user@example.com",
      emailVerified |-> TRUE, mobile |-> "0700", mobileVerified |-> FALSE,
      scopes |-> sc] : sc \in ScopeLists}

PiiBodies ==
    {[dateOfBirth |-> Str(<<"2000-02-08">>), biologicalSex |-> Str(<<"male">>),
      addresses |-> List(<<Str(<<"1", " ", "High", " ", "St">>),
                           Obj(<<Pair("value", Str(<<" ", "Flat", " ", "2">>)),
                                 Pair("isDefault", Bool(FALSE))>>)>>),
      emergencyContacts |-> List(<<Obj(<<Pair("name", Str(<<"Kim">>)),
                                         Pair("phone", Str(<<"0711">>))>>),
                                   Str(<<" ">>)>>)],
     [dateOfBirth |-> Undefined, biologicalSex |-> Undefined,
      addresses |-> List(<<>>), emergencyContacts |-> Undefined]}

StatusBodies == {[status |-> Str(<<"active">>)], [status |-> Str(<<"suspended">>)]}

BodiesOf(endpoint) ==
    CASE endpoint = "/profile/me" -> ProfileBodies
      [] endpoint = "/profile/me/pii" -> PiiBodies
      [] OTHER -> StatusBodies

HttpStatuses == {401}

\* `HTTP ${response.status}: ${response.statusText}`
StatusLine(status) ==
    CASE status = 401 -> "HTTP 401: Unauthorized"
      [] status = 500 -> "HTTP 500: Internal Server Error"
      [] OTHER -> "HTTP"

HttpAnswer(kind, status, message, error, data) ==
    [kind |-> kind, status |-> status, message |-> message, error |-> error, data |-> data]

\* fetch() rejects | 2xx with a JSON body | 2xx whose body is no JSON |
\* non-2xx with a JSON body (message, error or neither) | non-2xx whose body is no JSON
BackendReplies(endpoint) ==
    {HttpAnswer("throw", 0, m, "", Undefined) : m \in ThrownMessages \cup {""}}
        \cup {HttpAnswer("ok", 200, "", "", d) : d \in BodiesOf(endpoint)}
        \cup {HttpAnswer("okbad", 200, "Unexpected token", "", Undefined)}
        \cup {HttpAnswer("status", st, b[1], b[2], Undefined) :
                 st \in HttpStatuses,
                 b \in {<<"Token expired", "">>, <<"", "forbidden">>, <<"", "">>}}
        \cup {HttpAnswer("statusbad", st, "", "", Undefined) : st \in HttpStatuses}

-----------------------------------------------------------------------------
(* makeAuthenticatedRequest *)

\* a try block without its catch: the exception escapes
rethrow(r, fallback) == r

\* try { ... } catch (error) { return { success: false, error: error.message || fallback } }
catch(r, fallback) == IF r.tag = "throw" THEN Failure(Or(r.error, fallback)) ELSE r

\* makeAuthenticatedRequest() as it would be without the check of bearerToken
requestAfterTokenUnchecked(tokenResult) ==
    IF tokenResult.tag = "throw"
    THEN [kind |-> "return", bearer |-> NULL,
          result |-> Failure(Or(tokenResult.error, "Network request failed"))]
    ELSE [kind |-> "fetch", bearer |-> tokenResult.value, result |-> NoResult]

\* makeAuthenticatedRequest() once getBearerToken() has settled: "return" a
\* failure, or "fetch" the endpoint with the bearer token
requestAfterToken(tokenResult) ==
    IF tokenResult.tag = "throw"
    THEN [kind |-> "return", bearer |-> NULL,
          result |-> catch(tokenResult, "Network request failed")]
    ELSE IF ~TruthyToken(tokenResult.value)
    THEN [kind |-> "return", bearer |-> NULL,
          result |-> Failure("No authentication token available. Please log in.")]
    ELSE [kind |-> "fetch", bearer |-> tokenResult.value, result |-> NoResult]

\* the body of makeAuthenticatedRequest() from the settled fetch on
requestBody(reply) ==
    CASE reply.kind = "throw" -> Thrown(reply.message)
      [] reply.kind = "status" ->
            Failure(Or(reply.message, Or(reply.error, StatusLine(reply.status))))
      [] reply.kind = "statusbad" -> Failure(StatusLine(reply.status))
      [] reply.kind = "okbad" -> Thrown(reply.message)
      [] OTHER -> Success(reply.data)

\* makeAuthenticatedRequest() once the fetch has settled
requestAfterFetch(reply) == catch(requestBody(reply), "Network request failed")

-----------------------------------------------------------------------------
(* The callers of makeAuthenticatedRequest: a single request, and           *)
(* ApiService.getUserProfile, which awaits getBearerToken (stage "token")   *)
(* and then three requests in turn (stages "base", "pii", "role").          *)

Done(task, r) == [task EXCEPT !.pc = "done", !.result = r]

\* the endpoint a stage requests
EndpointOf(task, stage) ==
    CASE stage = "base" -> "/profile/me"
      [] stage = "pii" -> "/profile/me/pii"
      [] stage = "role" ->
            IF getUserTypeFromScopes(task.profile.scopes) = "fighter"
            THEN "/fighter/me"
            ELSE "/coach/me"
      [] OTHER -> task.endpoint

\* getUserProfile() once its own getBearerToken() has settled: "return" a
\* failure, or "go" on with the bearer token
profileAfterToken(tokenResult) ==
    IF tokenResult.tag = "throw"
    THEN [kind |-> "return", result |-> catch(tokenResult, "Failed to get user profile")]
    ELSE IF ~TruthyToken(tokenResult.value)
    THEN [kind |-> "return", result |-> Failure("Not authenticated")]
    ELSE [kind |-> "go", result |-> NoResult]

\* getUserProfile() as it would be if it went on after a failed base request
profileAfterBaseLenient(profileResponse) == [kind |-> "go", result |-> NoResult]

\* getUserProfile() once the base profile request has settled: "return" a
\* failure, or "go" on to the secondary requests
profileAfterBase(profileResponse) ==
    IF profileResponse.tag # "success" \/ profileResponse.data = Undefined
    THEN [kind |-> "return",
          result |-> Failure(Or(profileResponse.error, "Failed to get profile"))]
    ELSE [kind |-> "go", result |-> NoResult]

\* getUserProfile() as it would be if a failed personal-info or role request
\* failed the whole operation
profileAfterRoleStrict(task, roleResponse) ==
    IF task.piiResponse.tag # "success" \/ roleResponse.tag # "success"
    THEN Failure(Or(task.piiResponse.error, roleResponse.error))
    ELSE Success(buildUserProfile(task.profile.profileId, task.bearerToken, task.profile,
                                  task.piiResponse.data,
                                  IF getUserTypeFromScopes(task.profile.scopes) = "fighter"
                                  THEN roleResponse.data ELSE Undefined,
                                  IF getUserTypeFromScopes(task.profile.scopes) = "fighter"
                                  THEN Undefined ELSE roleResponse.data))

\* getUserProfile() once the role request has settled: the merged profile
profileAfterRole(task, roleResponse) ==
    LET userType == getUserTypeFromScopes(task.profile.scopes)
        fighterData == IF userType = "fighter" THEN roleResponse.data ELSE Undefined
        coachData == IF userType = "fighter" THEN Undefined ELSE roleResponse.data
    IN Success(buildUserProfile(task.profile.profileId, task.bearerToken, task.profile,
                                task.piiResponse.data, fighterData, coachData))

RECURSIVE callRequest(_, _, _, _)
RECURSIVE afterToken(_, _, _, _, _)
RECURSIVE afterResponse(_, _, _, _, _)

\* a stage begins: getBearerToken() runs up to its first await
callRequest(task, s, t, stage) ==
    LET e == getBearerTokenEnter(s, t)
        k == [task EXCEPT !.stage = stage]
    IN IF e.kind = "await"
       THEN [k EXCEPT !.pc = "refresh", !.calls = Append(@, Call("token", e.arg))]
       ELSE afterToken(k, s, t, stage, Returned(e.value))

\* getBearerToken() has settled with tokenResult
afterToken(task, s, t, stage, tokenResult) ==
    IF stage = "token"
    THEN LET a == profileAfterToken(tokenResult) IN
         IF a.kind = "return"
         THEN Done(task, a.result)
         ELSE callRequest([task EXCEPT !.bearerToken = tokenResult.value], s, t, "base")
    ELSE LET a == requestAfterToken(tokenResult) IN
         IF a.kind = "fetch"
         THEN [task EXCEPT !.pc = "http",
                           !.endpoint = EndpointOf(task, stage),
                           !.calls = Append(@, Call(EndpointOf(task, stage), a.bearer))]
         ELSE afterResponse(task, s, t, stage, a.result)

\* makeAuthenticatedRequest() has returned response
afterResponse(task, s, t, stage, response) ==
    CASE stage = "base" ->
            LET a == profileAfterBase(response) IN
            IF a.kind = "return"
            THEN Done(task, a.result)
            ELSE callRequest([task EXCEPT !.profile = response.data], s, t, "pii")
      [] stage = "pii" ->
            callRequest([task EXCEPT !.piiResponse = response], s, t, "role")
      [] stage = "role" ->
            Done([task EXCEPT !.roleResponse = response], profileAfterRole(task, response))
      [] OTHER -> Done(task, response)

-----------------------------------------------------------------------------
(* services/mockData.ts: the in-memory medical record store.  A profile id  *)
(* is a sequence of characters.                                             *)

\* calls of the mock service explored
MaxCalls == 3

\* milliseconds in a day
DayMs == 1000 * 60 * 60 * 24

\* the day of the seed data's ages, shortened to an hour so that every time
\* stays within 32-bit integers
SeedDayMs == 1000 * 60 * 60

\* the time at which the module was loaded
LoadTime == StartTime

DigitOf(n) == CHOOSE c \in Digits : DigitValue(c) = n

RECURSIVE ToDigits(_)
\* String(n) of a non-negative integer
ToDigits(n) ==
    IF n < 10 THEN <<DigitOf(n)>> ELSE ToDigits(n \div 10) \o <<DigitOf(n % 10)>>

\* String(n)
NumberToString(n) == IF n < 0 THEN <<"-">> \o ToDigits(0 - n) ELSE ToDigits(n)

\* Number(str) of a signed decimal string
StringToNumber(str) ==
    IF Len(str) > 0 /\ str[1] = "-"
    THEN 0 - parseDigits(Tail(str), 1, 0)
    ELSE parseDigits(str, 1, 0)

RECURSIVE PadStart(_, _)
\* String.prototype.padStart(width, '0')
PadStart(str, width) == IF Len(str) >= width THEN str ELSE PadStart(<<"0">> \o str, width)

\* new Date(t).toISOString(): the date, as the number of the day, and the
\* time of day in milliseconds, zero-padded
toISOString(t) ==
    [date |-> NumberToString(t \div DayMs), time |-> PadStart(ToDigits(t % DayMs), 8)]

\* new Date(iso).getTime()
getTime(iso) == StringToNumber(iso.date) * DayMs + parseDigits(iso.time, 1, 0)

\* String.prototype.slice(-n)
SliceLast(str, n) == IF Len(str) <= n THEN str ELSE SubSeq(str, Len(str) - n + 1, Len(str))

LowerCase ==
    <<"a", "b", "c", "d", "e", "f", "g", "h", "i", "j", "k", "l", "m",
      "n", "o", "p", "q", "r", "s", "t", "u", "v", "w", "x", "y", "z">>

UpperCase ==
    <<"A", "B", "C", "D", "E", "F", "G", "H", "I", "J", "K", "L", "M",
      "N", "O", "P", "Q", "R", "S", "T", "U", "V", "W", "X", "Y", "Z">>

\* String.prototype.toUpperCase
toUpperCase(str) ==
    [i \in 1..Len(str) |->
        IF \E j \in 1..26 : LowerCase[j] = str[i]
        THEN UpperCase[CHOOSE j \in 1..26 : LowerCase[j] = str[i]]
        ELSE str[i]]

MOCK_FIGHTER_ID ==
    <<"m", "o", "c", "k", "-", "f", "i", "g", "h", "t", "e", "r", "-", "1", "2", "3">>

MOCK_FIGHTER_PROFILE ==
    [profileId |-> MOCK_FIGHTER_ID, memberCode |-> <<"MTG123456">>,
     name |-> <<"Test Fighter">>, email |-> "fighter@test.com", emailVerified |-> TRUE,
     mobile |-> "+447777777777", mobileVerified |-> TRUE,
     scopes |-> <<<<"personalise", ":", "role", ":", "athlete">>>>]

MOCK_MEDIC_PROFILE ==
    [profileId |-> <<"m", "o", "c", "k", "-", "m", "e", "d", "i", "c", "-", "4", "5", "6">>,
     memberCode |-> <<"MTG789012">>,
     name |-> <<"Dr. Test Medic">>, email |-> "medic@test.com", emailVerified |-> TRUE,
     mobile |-> "+447999999999", mobileVerified |-> TRUE,
     scopes |-> <<MedicMarker>>]

MOCK_FIGHTER_DATA == [status |-> Str(<<"active">>)]

MOCK_FIGHTER_PII ==
    [dateOfBirth |-> Str(<<"1990-05-15">>), biologicalSex |-> Str(<<"male">>),
     addresses |-> List(<<Obj(<<Pair("value", Str(<<"123", " ", "High", " ", "Street">>)),
                                Pair("isDefault", Bool(TRUE))>>)>>),
     emergencyContacts |-> List(<<Obj(<<Pair("value", Str(<<"Jane", " ", "Doe">>)),
                                        Pair("isPrimary", Bool(TRUE))>>)>>)]

\* the personal info generated for a profile id other than the demo fighter's
PlaceholderPii ==
    [dateOfBirth |-> Str(<<"1995-01-01">>), biologicalSex |-> Str(<<"female">>),
     addresses |-> List(<<Obj(<<Pair("value", Str(<<"100", " ", "Demo", " ", "Street">>)),
                                Pair("isDefault", Bool(TRUE))>>)>>),
     emergencyContacts |-> List(<<Obj(<<Pair("value", Str(<<"Demo", " ", "Contact">>)),
                                        Pair("isPrimary", Bool(TRUE))>>)>>)]

\* getFighterRecord(profileId)
getFighterRecord(profileId) ==
    LET isKnown == profileId = MOCK_FIGHTER_PROFILE.profileId IN
    [profile |-> IF isKnown THEN MOCK_FIGHTER_PROFILE
                 ELSE [MOCK_FIGHTER_PROFILE EXCEPT
                          !.profileId = profileId,
                          !.memberCode =
                              toUpperCase(<<"M", "T", "G", "-">> \o SliceLast(profileId, 4)),
                          !.name = <<"Demo Fighter ">> \o SliceLast(profileId, 4)],
     pii |-> IF isKnown THEN MOCK_FIGHTER_PII ELSE PlaceholderPii,
     roleStatus |-> MOCK_FIGHTER_DATA.status]

MedicalEntry(id, entryType, notes, medicName, medicId, createdAt) ==
    [id |-> id, entryType |-> entryType, notes |-> notes, medicName |-> medicName,
     medicId |-> medicId, createdAt |-> createdAt]

\* the literal medicalHistoryByFighter is initialised with
SeedHistory ==
    <<MedicalEntry(<<"entry-001">>, "pre_fight_check", "Vitals normal.", "Dr. Test Medic",
                   MOCK_MEDIC_PROFILE.profileId, toISOString(LoadTime - 30 * SeedDayMs)),
      MedicalEntry(<<"entry-002">>, "injury_assessment", "Right shin bruise.",
                   "Dr. Test Medic", MOCK_MEDIC_PROFILE.profileId,
                   toISOString(LoadTime - 14 * SeedDayMs)),
      MedicalEntry(<<"entry-003">>, "medical_clearance", "Follow-up complete.",
                   "Dr. Test Medic", MOCK_MEDIC_PROFILE.profileId,
                   toISOString(LoadTime - 7 * SeedDayMs))>>

Suspension(active, reason, startDate, endDate, issuedBy, notes) ==
    [t |-> "suspension", active |-> active, reason |-> reason, startDate |-> startDate,
     endDate |-> endDate, issuedBy |-> issuedBy, notes |-> notes]

\* the literal suspensionByFighter is initialised with
SeedSuspension ==
    Suspension(FALSE, "Previous mild concussion - cleared",
               toISOString(LoadTime - 21 * SeedDayMs), toISOString(LoadTime - 7 * SeedDayMs),
               "Dr. Test Medic", Str(<<"Cleared after follow-up exam.">>))

\* the profile ids the medical pass is asked for: the demo fighter, two
\* fighters without a record, and a name that every object inherits
ProfileIds ==
    {MOCK_FIGHTER_ID, <<"f", "-", "9">>, <<"f", "i", "g", "h", "t", "e", "r", "-", "8">>,
     <<"c", "o", "n", "s", "t", "r", "u", "c", "t", "o", "r">>}

\* names every object literal inherits from Object.prototype
ObjectPrototypeKeys ==
    {<<"c", "o", "n", "s", "t", "r", "u", "c", "t", "o", "r">>,
     <<"t", "o", "S", "t", "r", "i", "n", "g">>}

\* an array
Array(items) == [t |-> "array", v |-> items]

\* a function inherited from Object.prototype
Inherited == [t |-> "function"]

\* medicalHistoryByFighter[profileId]: the own property, else the inherited
\* one, else undefined
HistoryOf(histories, profileId) ==
    IF profileId \in DOMAIN histories THEN Array(histories[profileId])
    ELSE IF profileId \in ObjectPrototypeKeys THEN Inherited
    ELSE Undefined

\* suspensionByFighter[profileId]
SuspensionOf(suspensions, profileId) ==
    IF profileId \in DOMAIN suspensions THEN suspensions[profileId]
    ELSE IF profileId \in ObjectPrototypeKeys THEN Inherited
    ELSE Undefined

\* the assignment as it would be if it set every property of the object
SetPropertyAll(obj, key, value) == [k \in DOMAIN obj \cup {key} |-> value]

\* obj[key] = value
SetProperty(obj, key, value) ==
    [k \in DOMAIN obj \cup {key} |-> IF k = key THEN value ELSE obj[k]]

\* getHistory(profileId): the store it leaves and the value it returns
getHistory(histories, profileId) ==
    IF HistoryOf(histories, profileId) = Undefined
    THEN [histories |-> SetProperty(histories, profileId, <<>>), history |-> Array(<<>>)]
    ELSE [histories |-> histories, history |-> HistoryOf(histories, profileId)]

\* upsertSuspension() as it would be if it kept a slot that is already set
upsertSuspensionKeep(suspensions, profileId, suspension) ==
    IF profileId \in DOMAIN suspensions
    THEN suspensions
    ELSE SetProperty(suspensions, profileId, suspension)

\* upsertSuspension(profileId, suspension)
upsertSuspension(suspensions, profileId, suspension) ==
    SetProperty(suspensions, profileId, suspension)

\* (a, b) => new Date(b.createdAt).getTime() - new Date(a.createdAt).getTime()
compareEntries(a, b) == getTime(b.createdAt) - getTime(a.createdAt)

\* where a stable sort puts x among the sorted items: before the first one
\* that the comparator orders after it
InsertSorted(sorted, x) ==
    LET later == {i \in 1..Len(sorted) : compareEntries(sorted[i], x) > 0}
        at == IF later = {} THEN Len(sorted) + 1
              ELSE CHOOSE i \in later : \A j \in later : i <= j
    IN SubSeq(sorted, 1, at - 1) \o <<x>> \o SubSeq(sorted, at, Len(sorted))

RECURSIVE sortInto(_, _)
sortInto(sorted, rest) ==
    IF Len(rest) = 0 THEN sorted ELSE sortInto(InsertSorted(sorted, Head(rest)), Tail(rest))

\* the history as it would be returned without sorting
sortHistoryNone(history) == history

\* [...history].sort(compare): Array.prototype.sort is stable
sortHistory(history) == sortInto(<<>>, history)

\* the part of getMedicalPass() after its delay: the store it leaves and
\* what it returns; spreading a value that is not iterable throws
getMedicalPass(histories, suspensions, profileId) ==
    LET record == getFighterRecord(profileId)
        h == getHistory(histories, profileId)
        suspension == SuspensionOf(suspensions, profileId)
    IN IF h.history.t # "array"
       THEN [histories |-> h.histories, result |-> Thrown("history is not iterable")]
       ELSE [histories |-> h.histories,
             result |-> Success([profile |-> record.profile, pii |-> record.pii,
                                 status |-> record.roleStatus,
                                 history |-> sortHistory(h.history.v),
                                 suspension |-> suspension])]

\* the id of a new entry: `entry-${history.length + 1}-${Date.now()}`
entryId(length, t) == <<"entry-">> \o ToDigits(length + 1) \o <<"-">> \o NumberToString(t)

\* history.push(entry) as it would be if it replaced the history
pushReplacing(history, entry) == <<entry>>

\* history.push(entry)
push(history, entry) == Append(history, entry)

\* addMedicalEntry() as it would be if it took the author from the request
\* as it is
addMedicalEntryNoDefaults(histories, profileId, request, t) ==
    LET h == getHistory(histories, profileId)
        length == IF h.history.t = "array" THEN Len(h.history.v) ELSE 1
        entry == MedicalEntry(entryId(length, t), request.entryType, request.notes,
                              request.medicName, request.medicId, toISOString(t))
    IN IF h.history.t # "array"
       THEN [histories |-> h.histories, entry |-> entry,
             result |-> Thrown("history.push is not a function")]
       ELSE [histories |-> SetProperty(h.histories, profileId, push(h.history.v, entry)),
             entry |-> entry, result |-> NoResult]

\* the part of addMedicalEntry() between its delay and its call of
\* getMedicalPass: the store it leaves, the entry it built and whether it
\* threw; a value without push() throws
addMedicalEntry(histories, profileId, request, t) ==
    LET h == getHistory(histories, profileId)
        length == IF h.history.t = "array" THEN Len(h.history.v) ELSE 1
        entry == MedicalEntry(entryId(length, t), request.entryType, request.notes,
                              Or(request.medicName, "Demo Medic"),
                              IF Len(request.medicId) = 0
                              THEN MOCK_MEDIC_PROFILE.profileId ELSE request.medicId,
                              toISOString(t))
    IN IF h.history.t # "array"
       THEN [histories |-> h.histories, entry |-> entry,
             result |-> Thrown("history.push is not a function")]
       ELSE [histories |-> SetProperty(h.histories, profileId, push(h.history.v, entry)),
             entry |-> entry, result |-> NoResult]

-----------------------------------------------------------------------------
(* Actions *)

Free(t) == tasks[t].pc = "idle"

\* caller t goes on as k: suspended at an await, or returned
Settle(t, k) ==
    IF k.pc = "done"
    THEN tasks' = [tasks EXCEPT ![t] = IdleTask] /\ returned' = k
    ELSE tasks' = [tasks EXCEPT ![t] = k] /\ returned' = IdleTask

Init ==
    /\ firebaseAuthService = NoSession
    /\ now = StartTime
    /\ tasks = [t \in Tasks |-> IdleTask]
    /\ returned = IdleTask
    /\ medicalHistoryByFighter = (MOCK_FIGHTER_ID :> SeedHistory)
    /\ suspensionByFighter = (MOCK_FIGHTER_ID :> SeedSuspension)
    /\ appended = [id \in ProfileIds |-> 0]
    /\ started = 0

\* time passes
Tick ==
    /\ now + TickMs <= StartTime + MaxTicks * TickMs
    /\ now' = now + TickMs
    /\ UNCHANGED <<firebaseAuthService, tasks, returned, mockData>>

\* firebaseAuthService.signOut() called from the UI
SignOut ==
    /\ firebaseAuthService' = signOut(firebaseAuthService)
    /\ UNCHANGED <<now, tasks, returned, mockData>>

\* signInWithEmailAndPassword(email, password): issues the sign-in call
SignInStart(t) ==
    /\ Free(t)
    /\ Settle(t, [IdleTask EXCEPT !.op = "signIn", !.pc = "signin",
                                  !.calls = <<Call("signInWithPassword", NULL)>>])
    /\ UNCHANGED <<firebaseAuthService, now, mockData>>

\* the sign-in call settles
SignInReply(t) ==
    /\ tasks[t].op = "signIn" /\ tasks[t].pc = "signin"
    /\ \E reply \in SignInReplies : Settle(t, signInAfterSignIn(tasks[t], reply))
    /\ UNCHANGED <<firebaseAuthService, now, mockData>>

\* the token exchange of a sign-in settles
SignInExchangeReply(t) ==
    /\ tasks[t].op = "signIn" /\ tasks[t].pc = "exchange"
    /\ \E reply \in ExchangeReplies :
           LET out == signInAfterExchange(firebaseAuthService, now,
                                          tasks[t].signInResult, reply) IN
           /\ firebaseAuthService' = out.session
           /\ Settle(t, [tasks[t] EXCEPT !.pc = "done", !.reply = reply,
                                         !.result = out.result])
    /\ UNCHANGED <<now, mockData>>

\* getBearerToken(): returns at once, or issues the refresh exchange
GetBearerTokenStart(t) ==
    /\ Free(t)
    /\ LET e == getBearerTokenEnter(firebaseAuthService, now) IN
       Settle(t, IF e.kind = "return"
                 THEN [IdleTask EXCEPT !.op = "getBearerToken", !.pc = "done",
                                       !.result = Returned(e.value)]
                 ELSE [IdleTask EXCEPT !.op = "getBearerToken", !.pc = "refresh",
                                       !.calls = <<Call("token", e.arg)>>])
    /\ UNCHANGED <<firebaseAuthService, now, mockData>>

\* the refresh exchange of a getBearerToken() settles
RefreshReply(t) ==
    /\ tasks[t].op = "getBearerToken" /\ tasks[t].pc = "refresh"
    /\ \E reply \in ExchangeReplies :
           LET out == getBearerTokenResume(firebaseAuthService, now, reply) IN
           /\ firebaseAuthService' = out.session
           /\ Settle(t, [tasks[t] EXCEPT !.pc = "done", !.reply = reply,
                                         !.result = out.result])
    /\ UNCHANGED <<now, mockData>>

Next ==
    \/ Tick
    \/ SignOut
    \/ \E t \in Tasks : SignInStart(t)
    \/ \E t \in Tasks : SignInReply(t)
    \/ \E t \in Tasks : SignInExchangeReply(t)
    \/ \E t \in Tasks : GetBearerTokenStart(t)
    \/ \E t \in Tasks : RefreshReply(t)

Spec == Init /\ [][Next]_vars

Endpoints == {"/profile/me", "/profile/me/personalise"}

\* makeAuthenticatedRequest(endpoint) called on its own
RequestStart(t) ==
    /\ Free(t)
    /\ \E ep \in Endpoints :
           Settle(t, callRequest([IdleTask EXCEPT !.op = "request", !.endpoint = ep],
                                 firebaseAuthService, now, "request"))
    /\ UNCHANGED <<firebaseAuthService, now, mockData>>

\* apiService.getUserProfile()
GetUserProfileStart(t) ==
    /\ Free(t)
    /\ Settle(t, callRequest([IdleTask EXCEPT !.op = "getUserProfile"],
                             firebaseAuthService, now, "token"))
    /\ UNCHANGED <<firebaseAuthService, now, mockData>>

\* the refresh exchange issued on behalf of a request settles
TokenReply(t) ==
    /\ tasks[t].op \in {"request", "getUserProfile"} /\ tasks[t].pc = "refresh"
    /\ \E reply \in ExchangeReplies :
           LET out == getBearerTokenResume(firebaseAuthService, now, reply) IN
           /\ firebaseAuthService' = out.session
           /\ Settle(t, afterToken([tasks[t] EXCEPT !.reply = reply], out.session, now,
                                   tasks[t].stage, out.result))
    /\ UNCHANGED <<now, mockData>>

\* the backend call of a request settles
BackendReply(t) ==
    /\ tasks[t].op \in {"request", "getUserProfile"} /\ tasks[t].pc = "http"
    /\ \E reply \in BackendReplies(tasks[t].endpoint) :
           Settle(t, afterResponse([tasks[t] EXCEPT !.reply = reply], firebaseAuthService,
                                   now, tasks[t].stage, requestAfterFetch(reply)))
    /\ UNCHANGED <<firebaseAuthService, now, mockData>>

\* the caller of the gateway and the aggregator: the first one
ApiTask == CHOOSE t \in Tasks : \A u \in Tasks : t <= u

\* one caller signs in, requests and fetches profiles while the clock runs
\* and the UI may sign out
NextApi ==
    \/ Tick
    \/ SignOut
    \/ SignInStart(ApiTask)
    \/ SignInReply(ApiTask)
    \/ SignInExchangeReply(ApiTask)
    \/ GetBearerTokenStart(ApiTask)
    \/ RefreshReply(ApiTask)
    \/ RequestStart(ApiTask)
    \/ GetUserProfileStart(ApiTask)
    \/ TokenReply(ApiTask)
    \/ BackendReply(ApiTask)

SpecApi == Init /\ [][NextApi]_vars

-----------------------------------------------------------------------------
(* ApiService.updateUserProfile: the basic-info update (stage "putProfile"), *)
(* the personal-info update (stage "putPii"), then getUserProfile.           *)

\* formatAddressesForRequest() as it would be if it marked every address
\* as the default
formatAddressesAllDefault(addresses) ==
    IF addresses.t = "undefined" THEN Undefined
    ELSE IF Len(addresses.v) = 0 THEN List(<<>>)
    ELSE List([i \in 1..Len(addresses.v) |->
                  Obj(<<Pair("value", Str(addresses.v[i])),
                        Pair("isDefault", Bool(TRUE))>>)])

\* formatAddressesForRequest(addresses): Address[] | undefined
formatAddressesForRequest(addresses) ==
    IF addresses.t = "undefined" THEN Undefined
    ELSE IF Len(addresses.v) = 0 THEN List(<<>>)
    ELSE List([i \in 1..Len(addresses.v) |->
                  Obj(<<Pair("value", Str(addresses.v[i])),
                        Pair("isDefault", Bool(i = 1))>>)])

\* formatContactsForRequest(contacts): EmergencyContact[] | undefined
formatContactsForRequest(contacts) ==
    IF contacts.t = "undefined" THEN Undefined
    ELSE IF Len(contacts.v) = 0 THEN List(<<>>)
    ELSE List([i \in 1..Len(contacts.v) |-> Obj(<<Pair("value", Str(contacts.v[i]))>>)])

\* ...(value && { key: value }): the key is left out when the value is falsy
Spread(value) == IF Falsy(value) THEN Undefined ELSE value

\* updates.name || updates.email || updates.mobile
wantsProfileUpdate(updates) ==
    ~Falsy(updates.name) \/ ~Falsy(updates.email) \/ ~Falsy(updates.mobile)

\* the personal-info test as it would be if an empty list counted as absent
wantsPiiUpdateNonEmpty(updates) ==
    \/ ~Falsy(updates.dateOfBirth)
    \/ ~Falsy(updates.biologicalSex)
    \/ updates.addresses.t = "list" /\ Len(updates.addresses.v) > 0
    \/ updates.emergencyContacts.t = "list" /\ Len(updates.emergencyContacts.v) > 0

\* updates.dateOfBirth || updates.biologicalSex || updates.addresses ||
\* updates.emergencyContacts: an array, empty or not, is truthy
wantsPiiUpdate(updates) ==
    \/ ~Falsy(updates.dateOfBirth)
    \/ ~Falsy(updates.biologicalSex)
    \/ ~Falsy(updates.addresses)
    \/ ~Falsy(updates.emergencyContacts)

\* profileRequest: UpdateProfileRequest
profileRequest(updates) ==
    [name |-> IF Falsy(updates.name) THEN Str(<<>>) ELSE updates.name,
     email |-> Spread(updates.email),
     mobile |-> Spread(updates.mobile)]

\* piiRequest: UpdatePiiRequest
piiRequest(updates) ==
    [dateOfBirth |-> Spread(updates.dateOfBirth),
     biologicalSex |-> Spread(updates.biologicalSex),
     addresses |-> formatAddressesForRequest(updates.addresses),
     emergencyContacts |-> formatContactsForRequest(updates.emergencyContacts)]

\* one fetch() with a method and a JSON body
PutCall(to, arg, body) == [to |-> to, arg |-> arg, method |-> "PUT", body |-> body]

PutStages == {"putProfile", "putPii"}

PutEndpoint(stage) == IF stage = "putProfile" THEN "/profile/me" ELSE "/profile/me/pii"

PutBody(stage, updates) ==
    IF stage = "putProfile" THEN profileRequest(updates) ELSE piiRequest(updates)

\* updateUserProfile() as it would be if it went on after a failed update
updateAfterPutLenient(stage, response) == [kind |-> "go", result |-> NoResult]

\* updateUserProfile() once one of its updates has settled: "return" a
\* failure, or "go" on
updateAfterPut(stage, response) ==
    IF response.tag # "success"
    THEN [kind |-> "return",
          result |-> Failure(Or(response.error,
                                IF stage = "putProfile"
                                THEN "Failed to update profile"
                                ELSE "Failed to update personal information"))]
    ELSE [kind |-> "go", result |-> NoResult]

RECURSIVE updateRequest(_, _, _, _)
RECURSIVE updateAfterToken(_, _, _, _, _)
RECURSIVE updateAfterResponse(_, _, _, _, _)

\* return await this.getUserProfile()
updateRefetch(task, s, t) == callRequest(task, s, t, "token")

\* the personal-info update, when one is wanted
updatePersonalInfo(task, s, t) ==
    IF wantsPiiUpdate(task.updates)
    THEN updateRequest(task, s, t, "putPii")
    ELSE updateRefetch(task, s, t)

\* an update begins: getBearerToken() runs up to its first await
updateRequest(task, s, t, stage) ==
    LET e == getBearerTokenEnter(s, t)
        k == [task EXCEPT !.stage = stage]
    IN IF e.kind = "await"
       THEN [k EXCEPT !.pc = "refresh", !.calls = Append(@, Call("token", e.arg))]
       ELSE updateAfterToken(k, s, t, stage, Returned(e.value))

\* getBearerToken() has settled with tokenResult
updateAfterToken(task, s, t, stage, tokenResult) ==
    LET a == requestAfterToken(tokenResult) IN
    IF a.kind = "fetch"
    THEN [task EXCEPT !.pc = "http",
                      !.endpoint = PutEndpoint(stage),
                      !.calls = Append(@, PutCall(PutEndpoint(stage), a.bearer,
                                                  PutBody(stage, task.updates)))]
    ELSE updateAfterResponse(task, s, t, stage, a.result)

\* makeAuthenticatedRequest() has returned response
updateAfterResponse(task, s, t, stage, response) ==
    LET a == updateAfterPut(stage, response) IN
    IF a.kind = "return" THEN Done(task, a.result)
    ELSE IF stage = "putProfile" THEN updatePersonalInfo(task, s, t)
    ELSE updateRefetch(task, s, t)

\* updateUserProfile() up to its first await
updateUserProfile(task, s, t) ==
    IF wantsProfileUpdate(task.updates)
    THEN updateRequest(task, s, t, "putProfile")
    ELSE updatePersonalInfo(task, s, t)

NoUpdates ==
    [name |-> Undefined, email |-> Undefined, mobile |-> Undefined,
     dateOfBirth |-> Undefined, biologicalSex |-> Undefined,
     addresses |-> Undefined, emergencyContacts |-> Undefined]

\* the partial profiles the form may submit
UpdateInputs ==
    {NoUpdates,
     [NoUpdates EXCEPT !.name = Str(<<"Sam">>)],
     [NoUpdates EXCEPT !.name = Str(<<>>)],
     [NoUpdates EXCEPT !.email = Str(<<"sam@example.com">>)],
     [NoUpdates EXCEPT !.addresses = List(<<>>)],
     [NoUpdates EXCEPT !.emergencyContacts = List(<<<<"Kim", " ", "0711">>>>)],
     [NoUpdates EXCEPT !.name = Str(<<"Sam">>), !.dateOfBirth = Str(<<"2000-02-08">>)],
     [NoUpdates EXCEPT !.mobile = Str(<<"0700">>),
                       !.addresses = List(<<<<"1", " ", "High", " ", "St">>,
                                            <<"Flat", " ", "2">>>>),
                       !.emergencyContacts = List(<<>>)]}

UpdateTask(updates) == [updates |-> updates] @@ [IdleTask EXCEPT !.op = "updateUserProfile"]

\* apiService.updateUserProfile(uid, updates)
UpdateUserProfileStart(t) ==
    /\ Free(t)
    /\ \E updates \in UpdateInputs :
           Settle(t, updateUserProfile(UpdateTask(updates), firebaseAuthService, now))
    /\ UNCHANGED <<firebaseAuthService, now, mockData>>

\* the refresh exchange issued on behalf of an updateUserProfile settles
UpdateTokenReply(t) ==
    /\ tasks[t].op = "updateUserProfile" /\ tasks[t].pc = "refresh"
    /\ \E reply \in ExchangeReplies :
           LET out == getBearerTokenResume(firebaseAuthService, now, reply)
               k == [tasks[t] EXCEPT !.reply = reply]
           IN /\ firebaseAuthService' = out.session
              /\ Settle(t, IF k.stage \in PutStages
                           THEN updateAfterToken(k, out.session, now, k.stage, out.result)
                           ELSE afterToken(k, out.session, now, k.stage, out.result))
    /\ UNCHANGED <<now, mockData>>

\* the response body explored for each endpoint of an updateUserProfile
UpdateBodies(endpoint) ==
    CASE endpoint = "/profile/me" ->
            {b \in ProfileBodies : getUserTypeFromScopes(b.scopes) = "fighter"}
      [] endpoint = "/profile/me/pii" ->
            {b \in PiiBodies : b.dateOfBirth # Undefined}
      [] OTHER -> {b \in StatusBodies : b.status = Str(<<"active">>)}

\* the answers of the backend explored for an updateUserProfile: 2xx with a
\* JSON body, non-2xx with a message, or fetch() rejects
UpdateReplies(endpoint) ==
    {r \in BackendReplies(endpoint) :
        \/ r.kind = "ok" /\ r.data \in UpdateBodies(endpoint)
        \/ r.kind \in {"status", "throw"} /\ r.message # ""}

\* a backend call of an updateUserProfile settles
UpdateBackendReply(t) ==
    /\ tasks[t].op = "updateUserProfile" /\ tasks[t].pc = "http"
    /\ \E reply \in UpdateReplies(tasks[t].endpoint) :
           LET k == [tasks[t] EXCEPT !.reply = reply]
               response == requestAfterFetch(reply)
           IN Settle(t, IF k.stage \in PutStages
                        THEN updateAfterResponse(k, firebaseAuthService, now, k.stage,
                                                 response)
                        ELSE afterResponse(k, firebaseAuthService, now, k.stage, response))
    /\ UNCHANGED <<firebaseAuthService, now, mockData>>

\* one caller signs in and submits profile updates while the clock runs and
\* the UI may sign out
NextUpdate ==
    \/ Tick
    \/ SignOut
    \/ SignInStart(ApiTask)
    \/ SignInReply(ApiTask)
    \/ SignInExchangeReply(ApiTask)
    \/ UpdateUserProfileStart(ApiTask)
    \/ UpdateTokenReply(ApiTask)
    \/ UpdateBackendReply(ApiTask)

SpecUpdate == Init /\ [][NextUpdate]_vars

-----------------------------------------------------------------------------
(* MockDataService: getMedicalPass, addMedicalEntry, setSuspension.  Each   *)
(* begins with `await delay()`; addMedicalEntry and setSuspension then      *)
(* write and call getMedicalPass, which waits for its own delay and reads.  *)

\* the AddMedicalEntryRequest values a medic may submit
AddRequests ==
    {[entryType |-> "injury_assessment", notes |-> "Knee", medicName |-> "",
      medicId |-> <<>>],
     [entryType |-> "note", notes |-> "Rest", medicName |-> "Dr. A",
      medicId |-> <<"m", "-", "1">>]}

\* the suspensions a medic may set; undefined clears the slot
SuspensionInputs ==
    {Undefined,
     Suspension(TRUE, "Concussion", toISOString(LoadTime), Undefined, "Dr. A", Undefined)}

\* a caller of the mock service: the operation, where it is suspended, its
\* arguments, the entry it built and what it returned
MockTask(op, pc, profileId) ==
    [op |-> op, pc |-> pc, profileId |-> profileId, request |-> Undefined,
     suspension |-> Undefined, entry |-> Undefined, result |-> NoResult]

\* caller t begins a call of the mock service
Begin(t) ==
    /\ Free(t)
    /\ started < MaxCalls
    /\ started' = started + 1
    /\ UNCHANGED <<firebaseAuthService, now, medicalHistoryByFighter, suspensionByFighter,
                   appended>>

\* mockDataService.getMedicalPass(profileId): waits for its delay
GetMedicalPassStart(t) ==
    /\ Begin(t)
    /\ \E id \in ProfileIds : Settle(t, MockTask("getMedicalPass", "read", id))

\* mockDataService.addMedicalEntry(profileId, request): waits for its delay
AddMedicalEntryStart(t) ==
    /\ Begin(t)
    /\ \E id \in ProfileIds, request \in AddRequests :
           Settle(t, [MockTask("addMedicalEntry", "add", id) EXCEPT !.request = request])

\* mockDataService.setSuspension(profileId, suspension): waits for its delay
SetSuspensionStart(t) ==
    /\ Begin(t)
    /\ \E id \in ProfileIds, suspension \in SuspensionInputs :
           Settle(t, [MockTask("setSuspension", "set", id) EXCEPT !.suspension = suspension])

\* addMedicalEntry after its delay: builds the entry, appends it and calls
\* getMedicalPass
AddMedicalEntryPush(t) ==
    /\ tasks[t].op = "addMedicalEntry" /\ tasks[t].pc = "add"
    /\ LET out == addMedicalEntry(medicalHistoryByFighter, tasks[t].profileId,
                                  tasks[t].request, now)
           k == [tasks[t] EXCEPT !.entry = out.entry]
       IN /\ medicalHistoryByFighter' = out.histories
          /\ IF out.result.tag = "throw"
             THEN appended' = appended /\ Settle(t, Done(k, out.result))
             ELSE /\ appended' = [appended EXCEPT ![tasks[t].profileId] = @ + 1]
                  /\ Settle(t, [k EXCEPT !.pc = "read"])
    /\ UNCHANGED <<firebaseAuthService, now, suspensionByFighter, started>>

\* setSuspension after its delay: writes the slot and calls getMedicalPass
SetSuspensionWrite(t) ==
    /\ tasks[t].op = "setSuspension" /\ tasks[t].pc = "set"
    /\ suspensionByFighter' =
           upsertSuspension(suspensionByFighter, tasks[t].profileId, tasks[t].suspension)
    /\ Settle(t, [tasks[t] EXCEPT !.pc = "read"])
    /\ UNCHANGED <<firebaseAuthService, now, medicalHistoryByFighter, appended, started>>

\* getMedicalPass after its delay: reads the store and returns the record
MedicalPassReturn(t) ==
    /\ tasks[t].op \in {"getMedicalPass", "addMedicalEntry", "setSuspension"}
    /\ tasks[t].pc = "read"
    /\ LET out == getMedicalPass(medicalHistoryByFighter, suspensionByFighter,
                                 tasks[t].profileId)
       IN /\ medicalHistoryByFighter' = out.histories
          /\ Settle(t, Done(tasks[t], out.result))
    /\ UNCHANGED <<firebaseAuthService, now, suspensionByFighter, appended, started>>

\* one caller reads and writes the medical store, and every caller may add
\* entries, while the clock runs
NextMock ==
    \/ Tick
    \/ GetMedicalPassStart(ApiTask)
    \/ \E t \in Tasks : AddMedicalEntryStart(t)
    \/ SetSuspensionStart(ApiTask)
    \/ \E t \in Tasks : AddMedicalEntryPush(t)
    \/ \E t \in Tasks : SetSuspensionWrite(t)
    \/ \E t \in Tasks : MedicalPassReturn(t)

SpecMock == Init /\ [][NextMock]_vars

\* the profile ids asked for when every caller may run every operation: the
\* demo fighter and a fighter without a record
RaceIds == {MOCK_FIGHTER_ID, <<"f", "-", "9">>}

\* the call caller t has just begun is for one of ids
Asks(t, ids) == tasks'[t].profileId \in ids

\* every caller reads, appends and sets suspensions at the same time, each
\* call suspended at its delay until the timer wakes it
NextRace ==
    \/ Tick
    \/ \E t \in Tasks : GetMedicalPassStart(t) /\ Asks(t, RaceIds)
    \/ \E t \in Tasks : AddMedicalEntryStart(t) /\ Asks(t, RaceIds)
    \/ \E t \in Tasks : SetSuspensionStart(t) /\ Asks(t, RaceIds)
    \/ \E t \in Tasks : AddMedicalEntryPush(t)
    \/ \E t \in Tasks : SetSuspensionWrite(t)
    \/ \E t \in Tasks : MedicalPassReturn(t)

SpecRace == Init /\ [][NextRace]_vars

-----------------------------------------------------------------------------
(* The address and contact lists on their way round: the backend's list is  *)
(* normalised for display when a profile is built, the display list is      *)
(* formatted for the request when the profile is saved, and what was saved  *)
(* is normalised again when the profile is next built.                      *)

\* longest list explored
MaxItems == 3

\* what the backend may hold as one address or contact
ListItems ==
    {Str(<<>>), Str(<<" ">>), Str(<<"1", " ", "High", " ", "St">>),
     Str(<<" ", "Flat", " ", "2", " ">>),
     Obj(<<Pair("value", Str(<<"Kim">>)), Pair("isPrimary", Bool(TRUE))>>),
     Obj(<<Pair("value", Str(<<" ">>)), Pair("note", Str(<<"x">>))>>),
     Obj(<<>>),
     List(<<Str(<<"a">>), Undefined, Str(<<"b">>)>>),
     List(<<>>),
     Bool(TRUE),
     Undefined}

\* the lists of at most n items
ListsUpTo(n) == UNION {[1..m -> ListItems] : m \in 0..n}

ListKinds == {"addresses", "emergencyContacts"}

\* a list on its way round
NormaliseTask(kind, items) ==
    [op |-> "normalise", pc |-> "input", kind |-> kind, items |-> items,
     display |-> Undefined, mockDisplay |-> Undefined, request |-> Undefined,
     again |-> Undefined]

InitNormalise ==
    /\ firebaseAuthService = NoSession
    /\ now = StartTime
    /\ tasks = [t \in Tasks |-> IdleTask]
    /\ returned \in {NormaliseTask(kind, items) :
                        kind \in ListKinds,
                        items \in {Undefined} \cup {List(l) : l \in ListsUpTo(MaxItems)}}
    /\ medicalHistoryByFighter = (MOCK_FIGHTER_ID :> SeedHistory)
    /\ suspensionByFighter = (MOCK_FIGHTER_ID :> SeedSuspension)
    /\ appended = [id \in ProfileIds |-> 0]
    /\ started = 0

\* buildUserProfile normalises the list of the response, in api.ts and in
\* mockData.ts
ToDisplayList ==
    /\ returned.op = "normalise" /\ returned.pc = "input"
    /\ returned' = [returned EXCEPT !.pc = "display",
                                    !.display = normaliseValueList(returned.items),
                                    !.mockDisplay = mockNormaliseValueList(returned.items)]
    /\ UNCHANGED <<firebaseAuthService, now, tasks, mockData>>

\* updateUserProfile formats the display list for the personal-info request
ToRequestList ==
    /\ returned.op = "normalise" /\ returned.pc = "display"
    /\ LET updates == [NoUpdates EXCEPT ![returned.kind] = returned.display] IN
       returned' = [returned EXCEPT !.pc = "request",
                                    !.request = piiRequest(updates)[returned.kind]]
    /\ UNCHANGED <<firebaseAuthService, now, tasks, mockData>>

\* buildUserProfile normalises the list that was saved
Renormalise ==
    /\ returned.op = "normalise" /\ returned.pc = "request"
    /\ returned' = [returned EXCEPT !.pc = "again",
                                    !.again = normaliseValueList(returned.request)]
    /\ UNCHANGED <<firebaseAuthService, now, tasks, mockData>>

NextNormalise == ToDisplayList \/ ToRequestList \/ Renormalise

SpecNormalise == InitNormalise /\ [][NextNormalise]_vars

-----------------------------------------------------------------------------
(* ApiService.login: an email that looks like a medic's goes to the mock     *)
(* service, any other to signInWithEmailAndPassword and then getUserProfile. *)
(* An email is a sequence of characters.                                     *)

\* String.prototype.toLowerCase
toLowerCase(str) ==
    [i \in 1..Len(str) |->
        IF \E j \in 1..26 : UpperCase[j] = str[i]
        THEN LowerCase[CHOOSE j \in 1..26 : UpperCase[j] = str[i]]
        ELSE str[i]]

\* email || ''
OrEmpty(value) == IF Falsy(value) THEN <<>> ELSE value.v

\* 'medic'
medicWord == <<"m", "e", "d", "i", "c">>

\* 'doctor'
doctorWord == <<"d", "o", "c", "t", "o", "r">>

\* the routing as it would be if only a doctor's email went to the mock
routesToMockDoctorOnly(email) == Includes(toLowerCase(OrEmpty(email)), doctorWord)

\* emailLower.includes('medic') || emailLower.includes('doctor')
routesToMock(email) ==
    LET emailLower == toLowerCase(OrEmpty(email))
    IN Includes(emailLower, medicWord) \/ Includes(emailLower, doctorWord)

MOCK_COACH_DATA == [status |-> Str(<<"active">>)]

MOCK_MEDIC_PII ==
    [dateOfBirth |-> Str(<<"1985-03-20">>), biologicalSex |-> Str(<<"female">>),
     addresses |-> List(<<Obj(<<Pair("value", Str(<<"456", " ", "King's", " ", "Road">>)),
                                Pair("isDefault", Bool(TRUE))>>)>>),
     emergencyContacts |-> List(<<Obj(<<Pair("value", Str(<<"John", " ", "Doe">>)),
                                        Pair("isPrimary", Bool(TRUE))>>)>>)]

\* buildUserProfile(profile, pii, roleStatus) of mockData.ts
mockBuildUserProfile(profile, pii, roleStatus) ==
    [uid |-> profile.profileId,
     firebaseToken |-> "mock-firebase-token",
     profileId |-> profile.profileId,
     memberCode |-> profile.memberCode,
     name |-> profile.name,
     email |-> profile.email,
     emailVerified |-> profile.emailVerified,
     mobile |-> profile.mobile,
     mobileVerified |-> profile.mobileVerified,
     scopes |-> profile.scopes,
     userType |-> IF \E i \in 1..Len(profile.scopes) : profile.scopes[i] = MedicMarker
                  THEN "medic" ELSE "fighter",
     dateOfBirth |-> pii.dateOfBirth,
     biologicalSex |-> pii.biologicalSex,
     addresses |-> mockNormaliseValueList(pii.addresses),
     emergencyContacts |-> mockNormaliseValueList(pii.emergencyContacts),
     status |-> roleStatus]

\* the part of mockDataService.login(email, password) after its delay; the
\* email and the name of both mock profiles are set, so the fallbacks of
\* `profile.email || email` and `profile.name || 'Test User'` are not taken
mockLogin(email, password) ==
    LET isMedic == Includes(email, medicWord) \/ Includes(email, doctorWord)
        profile == IF isMedic THEN MOCK_MEDIC_PROFILE ELSE MOCK_FIGHTER_PROFILE
        pii == IF isMedic THEN MOCK_MEDIC_PII ELSE MOCK_FIGHTER_PII
        roleData == IF isMedic THEN MOCK_COACH_DATA ELSE MOCK_FIGHTER_DATA
    IN Success([user |-> [uid |-> profile.profileId, email |-> profile.email,
                          displayName |-> profile.name],
                profile |-> mockBuildUserProfile(profile, pii, roleData.status)])

\* login() once signInWithEmailAndPassword has returned a failure
loginAfterAuth(authResponse) ==
    Failure(Or(authResponse.error, "Firebase authentication failed"))

\* login() once getUserProfile has returned
loginAfterProfile(authData, profileResponse) ==
    IF profileResponse.tag # "success" \/ profileResponse.data = Undefined
    THEN Failure(Or(profileResponse.error, "Failed to get user profile"))
    ELSE Success([user |-> [uid |-> authData.uid, email |-> authData.email,
                            displayName |-> profileResponse.data.name],
                  profile |-> profileResponse.data])

\* the login whose getUserProfile has gone on as k: still waiting, or returned
loginFinish(k) ==
    IF k.pc = "done"
    THEN [k EXCEPT !.result = loginAfterProfile(k.authData, k.result)]
    ELSE k

\* login() up to its first await
login(task) ==
    IF routesToMock(task.email)
    THEN [task EXCEPT !.pc = "mock", !.route = "mock"]
    ELSE IF Falsy(task.email) \/ Falsy(task.password)
    THEN Done(task, Failure("Email and password are required"))
    ELSE [task EXCEPT !.pc = "signin", !.route = "real",
                      !.calls = <<Call("signInWithPassword", NULL)>>]

\* the emails the login form may submit
LoginEmails ==
    {Str(<<"m", "e", "d", "i", "c", "@", "t">>),
     Str(<<"M", "e", "d", "i", "c", "@", "t">>),
     Str(<<"a", ".", "d", "o", "c", "t", "o", "r", "@", "t">>),
     Str(<<"D", "O", "C", "T", "O", "R", "@", "t">>),
     Str(<<"s", "a", "m", "@", "t">>),
     Undefined}

Passwords == {Str(<<"p", "w">>), Undefined}

LoginTask(email, password) ==
    [email |-> email, password |-> password, route |-> "none", authData |-> Undefined]
        @@ [IdleTask EXCEPT !.op = "login"]

\* apiService.login(email, password)
LoginStart(t) ==
    /\ Free(t)
    /\ \E email \in LoginEmails, password \in Passwords :
           Settle(t, login(LoginTask(email, password)))
    /\ UNCHANGED <<firebaseAuthService, now, mockData>>

\* the delay of mockDataService.login is over
LoginMockReturn(t) ==
    /\ tasks[t].op = "login" /\ tasks[t].pc = "mock"
    /\ Settle(t, Done(tasks[t], mockLogin(OrEmpty(tasks[t].email),
                                          OrEmpty(tasks[t].password))))
    /\ UNCHANGED <<firebaseAuthService, now, mockData>>

\* the sign-in call of a login settles
LoginSignInReply(t) ==
    /\ tasks[t].op = "login" /\ tasks[t].pc = "signin"
    /\ \E reply \in SignInReplies :
           LET k == signInAfterSignIn(tasks[t], reply) IN
           Settle(t, IF k.pc = "done"
                     THEN [k EXCEPT !.result = loginAfterAuth(k.result)]
                     ELSE k)
    /\ UNCHANGED <<firebaseAuthService, now, mockData>>

\* the token exchange of a login settles; after a successful one
\* getUserProfile begins
LoginExchangeReply(t) ==
    /\ tasks[t].op = "login" /\ tasks[t].pc = "exchange"
    /\ \E reply \in ExchangeReplies :
           LET out == signInAfterExchange(firebaseAuthService, now,
                                          tasks[t].signInResult, reply)
               k == [tasks[t] EXCEPT !.reply = reply]
           IN /\ firebaseAuthService' = out.session
              /\ Settle(t, IF out.result.tag # "success"
                           THEN Done(k, loginAfterAuth(out.result))
                           ELSE loginFinish(callRequest(
                                    [k EXCEPT !.authData = out.result.data],
                                    out.session, now, "token")))
    /\ UNCHANGED <<now, mockData>>

\* a refresh exchange issued on behalf of a login's getUserProfile settles
LoginTokenReply(t) ==
    /\ tasks[t].op = "login" /\ tasks[t].pc = "refresh"
    /\ \E reply \in ExchangeReplies :
           LET out == getBearerTokenResume(firebaseAuthService, now, reply) IN
           /\ firebaseAuthService' = out.session
           /\ Settle(t, loginFinish(afterToken([tasks[t] EXCEPT !.reply = reply],
                                               out.session, now, tasks[t].stage,
                                               out.result)))
    /\ UNCHANGED <<now, mockData>>

\* a backend call of a login's getUserProfile settles
LoginBackendReply(t) ==
    /\ tasks[t].op = "login" /\ tasks[t].pc = "http"
    /\ \E reply \in UpdateReplies(tasks[t].endpoint) :
           Settle(t, loginFinish(afterResponse([tasks[t] EXCEPT !.reply = reply],
                                               firebaseAuthService, now, tasks[t].stage,
                                               requestAfterFetch(reply))))
    /\ UNCHANGED <<firebaseAuthService, now, mockData>>

\* one caller logs in, as a medic or as a fighter, while the clock runs and
\* the UI may sign out
NextLogin ==
    \/ Tick
    \/ SignOut
    \/ LoginStart(ApiTask)
    \/ LoginMockReturn(ApiTask)
    \/ LoginSignInReply(ApiTask)
    \/ LoginExchangeReply(ApiTask)
    \/ LoginTokenReply(ApiTask)
    \/ LoginBackendReply(ApiTask)

SpecLogin == Init /\ [][NextLogin]_vars

-----------------------------------------------------------------------------
(* Properties of the token session *)

\* the calls in view: those in progress and the one that returned last
Visible == {tasks[t] : t \in Tasks} \cup {returned}

HasSession(s) == TruthyToken(s.accessToken) /\ TruthyToken(s.refreshToken)

\* remaining lifetime of the stored access token
Remaining == firebaseAuthService.tokenExpiresAt - now

GenericSignInErrors ==
    {"Firebase sign in failed", "Token exchange failed", "Failed to exchange tokens",
     "Authentication failed"}

\* C1: in every reachable state accessToken and refreshToken are both present
\* or both absent.
C1_TokensPaired ==
    (firebaseAuthService.accessToken = NULL) <=> (firebaseAuthService.refreshToken = NULL)

\* C2: when the refresh exchange of a getBearerToken() fails, by an error
\* response or by a network error, the call returns null, the session is
\* cleared, it has issued that one exchange only, and a getBearerToken()
\* on the session it leaves returns null without a network call.
C2_FailedRefreshIsFatal ==
    [][\A t \in Tasks :
          (RefreshReply(t) /\ returned'.reply.kind \in {"error", "throw"})
              => /\ returned'.result.tag = "return"
                 /\ returned'.result.value = NULL
                 /\ firebaseAuthService' = NoSession
                 /\ Len(returned'.calls) = 1
                 /\ getBearerTokenEnter(firebaseAuthService', now').kind = "return"
                 /\ getBearerTokenEnter(firebaseAuthService', now').value = NULL]_vars

\* C3: a getBearerToken() on a session whose token has 5 minutes or less left
\* (or has expired) issues exactly one exchange, with the stored refresh
\* token, and when the exchange succeeds returns the new access token and
\* stores it with its new expiry.
C3_RefreshWithinMargin ==
    [][\A t \in Tasks :
          /\ (/\ GetBearerTokenStart(t)
              /\ HasSession(firebaseAuthService)
              /\ TruthyTime(firebaseAuthService.tokenExpiresAt)
              /\ Remaining <= FIVE_MINUTES)
                 => /\ tasks'[t].pc = "refresh"
                    /\ tasks'[t].calls = <<Call("token", firebaseAuthService.refreshToken)>>
          /\ (RefreshReply(t) /\ returned'.reply.kind = "ok")
                 => /\ Len(returned'.calls) = 1
                    /\ returned'.result.tag = "return"
                    /\ returned'.result.value = returned'.reply.token
                    /\ firebaseAuthService'.accessToken = returned'.reply.token
                    /\ firebaseAuthService'.tokenExpiresAt =
                           now + parseInt(returned'.reply.expires_in) * 1000]_vars

\* C4: a getBearerToken() on a session whose expiry is more than 5 minutes
\* away returns the stored access token, issues no call and leaves the three
\* session fields as they were.
C4_FreshTokenReturned ==
    [][\A t \in Tasks :
          (/\ GetBearerTokenStart(t)
           /\ HasSession(firebaseAuthService)
           /\ TruthyTime(firebaseAuthService.tokenExpiresAt)
           /\ Remaining > FIVE_MINUTES)
              => /\ tasks'[t].pc = "idle"
                 /\ returned'.op = "getBearerToken"
                 /\ returned'.result.tag = "return"
                 /\ returned'.result.value = firebaseAuthService.accessToken
                 /\ returned'.calls = <<>>
                 /\ firebaseAuthService' = firebaseAuthService]_vars

\* a getBearerToken() has returned the stored token of a session with more
\* than 5 minutes left, without a call
C4_Witness ==
    /\ returned.op = "getBearerToken"
    /\ returned.calls = <<>>
    /\ HasSession(firebaseAuthService)
    /\ returned.result.value = firebaseAuthService.accessToken
    /\ Remaining > FIVE_MINUTES

\* C5: signInWithEmailAndPassword issues the sign-in call first and the
\* token exchange only after the sign-in succeeded, with the refresh token the
\* sign-in returned; when either step fails it returns a failure carrying the
\* provider's message or a generic one, and no exchange follows a failed
\* sign-in.
C5_SignInTwoSteps ==
    \A k \in Visible :
        k.op = "signIn" =>
            /\ Len(k.calls) \in {1, 2}
            /\ k.calls[1].to = "signInWithPassword"
            /\ (k.pc = "signin") => Len(k.calls) = 1
            /\ (k.pc = "exchange") =>
                   /\ k.reply.kind = "ok"
                   /\ k.calls = <<k.calls[1], Call("token", k.reply.token)>>
            /\ (Len(k.calls) = 2) =>
                   /\ k.signInResult.kind = "ok"
                   /\ k.calls[2] = Call("token", k.signInResult.token)
            /\ (k.pc = "done" /\ k.reply.kind # "ok") =>
                   /\ k.result.tag = "failure"
                   /\ k.result.error \in {k.reply.message} \cup GenericSignInErrors
                   /\ k.result.error # ""
            /\ (k.pc = "done" /\ k.result.tag # "failure") =>
                   /\ k.result.tag = "success"
                   /\ k.reply.kind = "ok"
                   /\ Len(k.calls) = 2

\* a sign-in whose first step succeeded and whose token exchange failed has
\* returned a failure
C5_Witness ==
    /\ returned.op = "signIn"
    /\ Len(returned.calls) = 2
    /\ returned.reply.kind = "throw"
    /\ returned.result.tag = "failure"

\* C6: signOut() leaves accessToken, refreshToken and tokenExpiresAt null
\* whatever the session was, and a second signOut() changes nothing.
C6_SignOutClears ==
    [][SignOut =>
          /\ firebaseAuthService'.accessToken = NULL
          /\ firebaseAuthService'.refreshToken = NULL
          /\ firebaseAuthService'.tokenExpiresAt = NullTime
          /\ signOut(firebaseAuthService') = firebaseAuthService']_vars

\* the session that the last call, a successful sign-in, established has
\* been cleared
C6_Witness ==
    /\ firebaseAuthService = NoSession
    /\ returned.op = "signIn"
    /\ returned.result.tag = "success"

-----------------------------------------------------------------------------
(* Properties of the request gateway and the profile aggregator *)

NoTokenError == "No authentication token available. Please log in."

\* C7: with no session, getBearerToken() returns null without a call, and
\* makeAuthenticatedRequest returns the "no authentication token" failure
\* without issuing the backend call.
C7_NoSessionNoCall ==
    [][/\ (~HasSession(firebaseAuthService) /\ GetBearerTokenStart(ApiTask))
             => /\ returned'.op = "getBearerToken"
                /\ returned'.result.tag = "return"
                /\ returned'.result.value = NULL
                /\ returned'.calls = <<>>
       /\ (~HasSession(firebaseAuthService) /\ RequestStart(ApiTask))
             => /\ returned'.op = "request"
                /\ returned'.result.tag = "failure"
                /\ returned'.result.error = NoTokenError
                /\ returned'.calls = <<>>]_vars

\* a request made without a session has failed without a call
C7_Witness ==
    /\ ~HasSession(firebaseAuthService)
    /\ returned.op = "request"
    /\ returned.calls = <<>>
    /\ returned.result.error = NoTokenError

\* C8: whatever the token acquisition, the HTTP call and the parsing of the
\* response do, makeAuthenticatedRequest returns success with data or
\* success false with a non-empty error string; no exception escapes.
C8_RequestNeverThrows ==
    returned.op = "request" =>
        \/ returned.result.tag = "success" /\ returned.result.data # Undefined
        \/ /\ returned.result.tag = "failure"
           /\ returned.result.error # ""
           /\ returned.result.data = Undefined

\* a request whose token refresh threw has returned a failure
C8_Witness ==
    /\ returned.op = "request"
    /\ Len(returned.calls) = 1
    /\ returned.calls[1].to = "token"
    /\ returned.reply.kind = "throw"
    /\ returned.result.tag = "failure"

\* the backend calls among the fetches of a caller
BackendCalls(k) == SelectSeq(k.calls, LAMBDA c : c.to # "token")

C10_SecondaryFailuresTolerated ==
    (returned.op = "getUserProfile" /\ returned.profile # Undefined) =>
        LET k == returned
            p == k.result.data
        IN /\ k.result.tag = "success"
           /\ (k.piiResponse.tag = "failure") =>
                  /\ p.dateOfBirth = Undefined
                  /\ p.biologicalSex = Undefined
                  /\ p.addresses = Undefined
                  /\ p.emergencyContacts = Undefined
           /\ (k.piiResponse.tag = "success") =>
                  /\ p.dateOfBirth = k.piiResponse.data.dateOfBirth
                  /\ p.biologicalSex = k.piiResponse.data.biologicalSex
           /\ (k.roleResponse.tag = "failure") => p.status = Undefined
           /\ (k.roleResponse.tag = "success") => p.status = k.roleResponse.data.status
           /\ p.profileId = k.profile.profileId

\* a getUserProfile both of whose secondary requests failed has returned a
\* profile
C10_Witness ==
    /\ returned.op = "getUserProfile"
    /\ returned.piiResponse.tag = "failure"
    /\ returned.roleResponse.tag = "failure"
    /\ returned.result.tag = "success"


RoleEndpoints == {"/fighter/me", "/coach/me"}

\* the role-status calls among the fetches of a caller
RoleCalls(k) == SelectSeq(k.calls, LAMBDA c : c.to \in RoleEndpoints)

\* some scope contains the medic or the coach marker
HasMedicScope(scopes) ==
    \E i \in 1..Len(scopes) :
        \E j \in 1..Len(scopes[i]) :
            \E m \in {MedicMarker, CoachMarker} :
                /\ j + Len(m) - 1 <= Len(scopes[i])
                /\ \A n \in 1..Len(m) : scopes[i][j + n - 1] = m[n]

\* C11: the derived role is medic exactly when some scope of the base
\* profile contains the medic or the coach marker, and fighter otherwise; a
\* getUserProfile makes one role-status request, to /coach/me for a medic and
\* to /fighter/me for a fighter, never to the other endpoint and never twice
\* (the request issues no call only when it obtained no token), and the
\* status of the merged profile is the status of that request's response.
C11_RoleFromScopes ==
    \A k \in Visible :
        (k.op = "getUserProfile" /\ k.profile # Undefined) =>
            LET medic == HasMedicScope(k.profile.scopes)
                R == RoleCalls(k)
            IN /\ Len(R) <= 1
               /\ \A i \in 1..Len(R) :
                      R[i].to = (IF medic THEN "/coach/me" ELSE "/fighter/me")
               /\ (Len(R) = 1) => k.stage = "role" /\ k.calls[Len(k.calls)] = R[1]
               /\ (k.pc = "done") =>
                      /\ k.stage = "role"
                      /\ k.result.data.userType = (IF medic THEN "medic" ELSE "fighter")
                      /\ (Len(R) = 0) =>
                             /\ k.roleResponse.tag = "failure"
                             /\ k.roleResponse.error \in {NoTokenError} \cup ThrownMessages
                             /\ k.result.data.status = Undefined
                      /\ (Len(R) = 1 /\ k.reply.kind = "ok") =>
                             k.result.data.status = k.reply.data.status
                      /\ (Len(R) = 1 /\ k.reply.kind # "ok") =>
                             k.result.data.status = Undefined

\* a getUserProfile whose base profile carries a scope that contains the
\* coach marker has asked /coach/me and returned a medic with its status
C11_Witness ==
    /\ returned.op = "getUserProfile"
    /\ returned.result.tag = "success"
    /\ returned.result.data.userType = "medic"
    /\ MedicMarker \notin {returned.profile.scopes[i] : i \in 1..Len(returned.profile.scopes)}
    /\ Len(RoleCalls(returned)) = 1
    /\ RoleCalls(returned)[1].to = "/coach/me"
    /\ returned.result.data.status = Str(<<"suspended">>)


-----------------------------------------------------------------------------
(* Properties of updateUserProfile *)

\* the updates among the fetches of a caller that went to endpoint
PutCalls(k, endpoint) ==
    SelectSeq(k.calls, LAMBDA c : "method" \in DOMAIN c /\ c.to = endpoint)

Supplied(value) == value # Undefined

\* the caller after a step: suspended, or returned
After(t) == IF tasks'[t].pc = "idle" THEN returned' ELSE tasks'[t]

\* C12: updateUserProfile sends PUT /profile/me only if one of name, email,
\* mobile is supplied and PUT /profile/me/pii only if one of date of birth,
\* sex, addresses, emergency contacts is supplied, each at most once; a list
\* supplied empty is sent as an empty list and a list left out is absent from
\* the request; an operation given a list, empty or not, does not go on to
\* the re-fetch without having sent the personal-info update.
C12_UpdatesOnlyWhenSupplied ==
    \A k \in Visible :
        k.op = "updateUserProfile" =>
            LET u == k.updates
                P == PutCalls(k, "/profile/me")
                Q == PutCalls(k, "/profile/me/pii")
            IN /\ Len(P) <= 1 /\ Len(Q) <= 1
               /\ (Len(P) = 1) =>
                      Supplied(u.name) \/ Supplied(u.email) \/ Supplied(u.mobile)
               /\ (Len(Q) = 1) =>
                      /\ \/ Supplied(u.dateOfBirth) \/ Supplied(u.biologicalSex)
                         \/ Supplied(u.addresses) \/ Supplied(u.emergencyContacts)
                      /\ Supplied(Q[1].body.addresses) <=> Supplied(u.addresses)
                      /\ Supplied(Q[1].body.emergencyContacts)
                             <=> Supplied(u.emergencyContacts)
                      /\ Supplied(u.addresses) =>
                             /\ Len(Q[1].body.addresses.v) = Len(u.addresses.v)
                             /\ \A i \in 1..Len(u.addresses.v) :
                                    Lookup(Q[1].body.addresses.v[i].v, "value")
                                        = Str(u.addresses.v[i])
                      /\ Supplied(u.emergencyContacts) =>
                             /\ Len(Q[1].body.emergencyContacts.v)
                                    = Len(u.emergencyContacts.v)
                             /\ \A i \in 1..Len(u.emergencyContacts.v) :
                                    Lookup(Q[1].body.emergencyContacts.v[i].v, "value")
                                        = Str(u.emergencyContacts.v[i])
               /\ (Len(Q) = 0 /\ (Supplied(u.addresses) \/ Supplied(u.emergencyContacts)))
                      => k.stage \in {"none"} \cup PutStages

\* an updateUserProfile given only an empty address list has sent the
\* personal-info update with an empty list and no contact list, and no
\* basic-info update
C12_Witness ==
    /\ returned.op = "updateUserProfile"
    /\ returned.updates.addresses = List(<<>>)
    /\ Len(PutCalls(returned, "/profile/me")) = 0
    /\ Len(PutCalls(returned, "/profile/me/pii")) = 1
    /\ PutCalls(returned, "/profile/me/pii")[1].body.addresses = List(<<>>)
    /\ PutCalls(returned, "/profile/me/pii")[1].body.emergencyContacts = Undefined
    /\ returned.result.tag = "success"

\* C13: when the basic-info update of an updateUserProfile fails, at the
\* backend or for want of a token, the operation returns a failure with that
\* error and issues no further call: neither the personal-info update nor
\* the re-fetch.
C13_BasicFailureStops ==
    [][/\ (/\ UpdateBackendReply(ApiTask)
            /\ tasks[ApiTask].stage = "putProfile"
            /\ requestAfterFetch(After(ApiTask).reply).tag = "failure")
             => /\ After(ApiTask).pc = "done"
                /\ After(ApiTask).result.tag = "failure"
                /\ After(ApiTask).result.error = requestAfterFetch(After(ApiTask).reply).error
                /\ After(ApiTask).calls = tasks[ApiTask].calls
                /\ Len(PutCalls(After(ApiTask), "/profile/me/pii")) = 0
       /\ (/\ UpdateTokenReply(ApiTask)
            /\ tasks[ApiTask].stage = "putProfile"
            /\ After(ApiTask).reply.kind # "ok")
             => /\ After(ApiTask).pc = "done"
                /\ After(ApiTask).result.tag = "failure"
                /\ After(ApiTask).calls = tasks[ApiTask].calls]_vars

\* an updateUserProfile with basic and personal fields whose basic-info
\* update the backend refused has failed after that one call
C13_Witness ==
    /\ returned.op = "updateUserProfile"
    /\ wantsPiiUpdate(returned.updates)
    /\ returned.stage = "putProfile"
    /\ Len(returned.calls) = 1
    /\ Len(PutCalls(returned, "/profile/me")) = 1
    /\ returned.reply.kind = "status"
    /\ returned.result = Failure("Token expired")

\* one of the updates of caller k has succeeded: one that was followed by a
\* further call, or the last call when its answer was a success
SubUpdateSucceeded(k) ==
    \E i \in 1..Len(k.calls) :
        /\ "method" \in DOMAIN k.calls[i]
        /\ \/ i < Len(k.calls)
           \/ requestAfterFetch(k.reply).tag = "success"

\* C14: an updateUserProfile one of whose updates succeeded has gone on to
\* getUserProfile and returns what getUserProfile returned.
C14_RefetchAfterSubUpdate ==
    (returned.op = "updateUserProfile" /\ SubUpdateSucceeded(returned)) =>
        returned.stage \in {"token", "base", "pii", "role"}

-----------------------------------------------------------------------------
(* Properties of the medical record store *)

MockOps == {"getMedicalPass", "addMedicalEntry", "setSuspension"}

\* the entries a profile id had when the module was loaded
InitialEntries(id) == IF id = MOCK_FIGHTER_ID THEN SeedHistory ELSE <<>>

\* the stored entries of a profile id; none when it has no array of its own
Stored(histories, id) == IF id \in DOMAIN histories THEN histories[id] ELSE <<>>

\* the number of places at which e occurs in a list
Count(list, e) == Cardinality({i \in 1..Len(list) : list[i] = e})

\* C15: the record an addMedicalEntry returns has as many entries as the
\* profile id had initially plus the addMedicalEntry calls that have appended
\* to it so far, and its history[0] is the entry that call added, also when
\* calls stamp the same creation time.
C15_AddReturnsNewestFirst ==
    [][\A t \in Tasks :
          (MedicalPassReturn(t) /\ tasks[t].op = "addMedicalEntry") =>
              /\ returned'.result.tag = "success"
              /\ Len(returned'.result.data.history)
                     = Len(InitialEntries(tasks[t].profileId)) + appended[tasks[t].profileId]
              /\ returned'.result.data.history[1] = tasks[t].entry]_vars

\* C16: no two stored entries, of one profile id or of two, have the same id.
C16_EntryIdsUnique ==
    \A a, b \in DOMAIN medicalHistoryByFighter :
        \A i \in 1..Len(medicalHistoryByFighter[a]), j \in 1..Len(medicalHistoryByFighter[b]) :
            (medicalHistoryByFighter[a][i].id = medicalHistoryByFighter[b][j].id)
                => (a = b /\ i = j)

\* C17: the history of every record returned by getMedicalPass,
\* addMedicalEntry or setSuspension is sorted by creation time, newest first,
\* and holds each stored entry of the profile id as often as the store does.
C17_HistorySortedPermutation ==
    (returned.op \in MockOps /\ returned.result.tag = "success") =>
        LET history == returned.result.data.history
            stored == Stored(medicalHistoryByFighter, returned.profileId)
        IN /\ Len(history) = Len(stored)
           /\ \A i \in 1..Len(stored) : Count(history, stored[i]) = Count(stored, stored[i])
           /\ \A i \in 1..Len(history) : Count(stored, history[i]) > 0
           /\ \A i, j \in 1..Len(history) :
                  (i < j) => getTime(history[i].createdAt) >= getTime(history[j].createdAt)

\* a record has been returned whose history holds the three seed entries and
\* two entries of equal creation time
C17_Witness ==
    /\ returned.op \in MockOps
    /\ returned.result.tag = "success"
    /\ Len(returned.result.data.history) = 5
    /\ returned.result.data.history[1].createdAt = returned.result.data.history[2].createdAt
    /\ returned.result.data.history[1] # returned.result.data.history[2]

\* C18: once setSuspension(id, S) has written, getMedicalPass(id) returns a
\* record whose suspension is S, and none when S is undefined, whatever the
\* slot held before; the record a getMedicalPass returns carries the one
\* suspension the slot holds.
C18_SuspensionRoundTrip ==
    [][\A t \in Tasks :
          /\ SetSuspensionWrite(t) =>
                LET r == getMedicalPass(medicalHistoryByFighter', suspensionByFighter',
                                        tasks[t].profileId).result
                IN /\ r.tag = "success"
                   /\ r.data.suspension = tasks[t].suspension
          /\ (MedicalPassReturn(t) /\ returned'.result.tag = "success") =>
                returned'.result.data.suspension
                    = SuspensionOf(suspensionByFighter, tasks[t].profileId)]_vars

\* profile id was never written: it has no entry and no suspension slot
NeverWritten(id) ==
    /\ id # MOCK_FIGHTER_ID
    /\ Stored(medicalHistoryByFighter, id) = <<>>
    /\ id \notin DOMAIN suspensionByFighter

\* C19: a getMedicalPass of a profile id never written returns success with
\* an empty history, no suspension and the placeholder profile of that id; a
\* second read returns the same, and the read leaves the entries and the
\* suspension of every profile id as they were.
C19_UnknownIdReadsEmpty ==
    [][\A t \in Tasks :
          (/\ MedicalPassReturn(t)
           /\ tasks[t].op = "getMedicalPass"
           /\ NeverWritten(tasks[t].profileId)) =>
              /\ returned'.result.tag = "success"
              /\ returned'.result.data.history = <<>>
              /\ returned'.result.data.suspension = Undefined
              /\ returned'.result.data.profile.profileId = tasks[t].profileId
              /\ returned'.result
                     = getMedicalPass(medicalHistoryByFighter', suspensionByFighter',
                                      tasks[t].profileId).result
              /\ \A id \in ProfileIds :
                     Stored(medicalHistoryByFighter', id) = Stored(medicalHistoryByFighter, id)
              /\ suspensionByFighter' = suspensionByFighter]_vars

\* C20: every step keeps each stored entry in its profile id's history, with
\* its id, entryType, notes, author and creation time.
C20_HistoryAppendOnly ==
    [][\A id \in DOMAIN medicalHistoryByFighter :
          /\ id \in DOMAIN medicalHistoryByFighter'
          /\ Len(medicalHistoryByFighter'[id]) >= Len(medicalHistoryByFighter[id])
          /\ \A i \in 1..Len(medicalHistoryByFighter[id]) :
                 medicalHistoryByFighter'[id][i] = medicalHistoryByFighter[id][i]]_vars

\* a setSuspension has returned the record of a profile id that two
\* addMedicalEntry calls appended to before it, with both entries and the
\* seed entries
C20_Witness ==
    /\ returned.op = "setSuspension"
    /\ returned.result.tag = "success"
    /\ appended[returned.profileId] = 2
    /\ Len(medicalHistoryByFighter[returned.profileId]) = 5
    /\ \A i \in 1..3 : medicalHistoryByFighter[returned.profileId][i] = SeedHistory[i]
    /\ Len(returned.result.data.history) = 5

-----------------------------------------------------------------------------
(* Properties of the store under concurrent calls *)

\* caller t has written its suspension and waits for the delay of its read
WrittenBy(t) == tasks[t].op = "setSuspension" /\ tasks[t].pc = "read"

\* another caller's setSuspension writes the slot of caller t's profile id
\* in this step
Overwritten(t) ==
    \E u \in Tasks \ {t} :
        SetSuspensionWrite(u) /\ tasks[u].profileId = tasks[t].profileId

\* C21: whatever the order in which concurrently started calls wake from their
\* delays, no step removes or changes a stored entry, every profile id holds
\* its initial entries plus one entry per addMedicalEntry that has appended,
\* the record an addMedicalEntry returns holds the entry it added exactly
\* once, a setSuspension leaves its value in the slot, the value stays there
\* until another setSuspension writes that slot, and the record the
\* setSuspension returns carries it unless that has happened.
C21_DelayKeepsMutations ==
    [][/\ \A id \in ProfileIds :
              /\ Len(Stored(medicalHistoryByFighter', id))
                     = Len(InitialEntries(id)) + appended'[id]
              /\ SubSeq(Stored(medicalHistoryByFighter', id), 1,
                        Len(Stored(medicalHistoryByFighter, id)))
                     = Stored(medicalHistoryByFighter, id)
       /\ \A t \in Tasks :
              /\ (AddMedicalEntryPush(t) /\ tasks'[t].pc = "read") =>
                     Stored(medicalHistoryByFighter', tasks[t].profileId)
                         = Append(Stored(medicalHistoryByFighter, tasks[t].profileId),
                                  tasks'[t].entry)
              /\ (/\ MedicalPassReturn(t)
                  /\ tasks[t].op = "addMedicalEntry"
                  /\ returned'.result.tag = "success") =>
                     Count(returned'.result.data.history, tasks[t].entry) = 1
              /\ SetSuspensionWrite(t) =>
                     SuspensionOf(suspensionByFighter', tasks[t].profileId)
                         = tasks[t].suspension
              /\ (/\ WrittenBy(t)
                  /\ SuspensionOf(suspensionByFighter, tasks[t].profileId)
                         = tasks[t].suspension
                  /\ ~Overwritten(t)) =>
                     /\ SuspensionOf(suspensionByFighter', tasks[t].profileId)
                            = tasks[t].suspension
                     /\ (MedicalPassReturn(t) /\ returned'.result.tag = "success") =>
                            returned'.result.data.suspension = tasks[t].suspension]_vars

\* two setSuspension calls for one profile id were suspended at their delays
\* together: the one that wrote first has returned the value the other wrote
\* after it, with the entry an addMedicalEntry appended, while the other
\* still waits for its read
C21_Witness ==
    /\ returned.op = "setSuspension"
    /\ returned.result.tag = "success"
    /\ returned.result.data.suspension # returned.suspension
    /\ \E u \in Tasks :
           /\ WrittenBy(u)
           /\ tasks[u].profileId = returned.profileId
           /\ tasks[u].suspension = returned.result.data.suspension
    /\ appended[returned.profileId] = 1
    /\ Len(returned.result.data.history) = Len(InitialEntries(returned.profileId)) + 1

-----------------------------------------------------------------------------
(* Properties of concurrent callers of the token session *)

\* the call that returned last was a getBearerToken whose one exchange, of
\* refresh token r, succeeded
RefreshedWith(k, r) ==
    /\ k.op = "getBearerToken"
    /\ k.calls = <<Call("token", r)>>
    /\ k.reply.kind = "ok"

\* caller u waits for the exchange it issued with refresh token r
RefreshingWith(u, r) ==
    /\ tasks[u].op = "getBearerToken"
    /\ tasks[u].pc = "refresh"
    /\ tasks[u].calls = <<Call("token", r)>>

\* C22: two getBearerToken calls in flight at the same time have each issued
\* an exchange with the session's refresh token.  When the exchange of either
\* succeeds while the session holds that refresh token, whether the other's is
\* still pending or has succeeded before it, the caller gets the non-null
\* access token of its own exchange and the session is left with that access
\* token, the refresh token both exchanged and an expiry; the caller whose
\* exchange succeeded first has got a non-null access token too.
C22_ConcurrentRefresh ==
    [][\A t \in Tasks :
          (/\ RefreshReply(t)
           /\ firebaseAuthService.refreshToken = tasks[t].calls[1].arg
           /\ \/ \E u \in Tasks \ {t} : RefreshingWith(u, tasks[t].calls[1].arg)
              \/ RefreshedWith(returned, tasks[t].calls[1].arg)
           /\ RefreshedWith(returned', tasks[t].calls[1].arg)) =>
              /\ RefreshedWith(returned, tasks[t].calls[1].arg) =>
                     /\ returned.result.tag = "return"
                     /\ returned.result.value = returned.reply.token
                     /\ TruthyToken(returned.result.value)
              /\ returned'.result.tag = "return"
              /\ returned'.result.value = returned'.reply.token
              /\ TruthyToken(returned'.result.value)
              /\ firebaseAuthService'.accessToken = returned'.result.value
              /\ firebaseAuthService'.refreshToken = tasks[t].calls[1].arg
              /\ TruthyToken(firebaseAuthService'.refreshToken)
              /\ TruthyTime(firebaseAuthService'.tokenExpiresAt)
              /\ firebaseAuthService'.tokenExpiresAt
                     = ExpiryFrom(now, returned'.reply.expires_in)]_vars

\* two getBearerToken calls have each exchanged the refresh token of the one
\* session: the first has returned its new access token, the second is still
\* waiting for its own exchange
C22_Witness ==
    /\ returned.op = "getBearerToken"
    /\ returned.reply.kind = "ok"
    /\ TruthyToken(returned.result.value)
    /\ firebaseAuthService.accessToken = returned.result.value
    /\ RefreshedWith(returned, firebaseAuthService.refreshToken)
    /\ \E u \in Tasks : RefreshingWith(u, firebaseAuthService.refreshToken)

-----------------------------------------------------------------------------
(* Properties of the entries and of the slots of the store *)

\* MedicalEntryType
MedicalEntryTypes ==
    {"pre_fight_check", "injury_assessment", "medical_clearance", "suspension_issued",
     "suspension_cleared", "note"}

\* requests of every entry type, with the author supplied, missing, or
\* supplied in part
EntryRequests ==
    {[entryType |-> ty, notes |-> "Knee", medicName |-> a[1], medicId |-> a[2]] :
        ty \in MedicalEntryTypes,
        a \in {<<"", <<>>>>, <<"Dr. A", <<"m", "-", "1">>>>, <<"Dr. A", <<>>>>}}

\* the times the clock shows
ClockTimes == {StartTime + i * TickMs : i \in 0..MaxTicks}

\* entry e is what request made at time t asks for
EntryOf(e, request, t) ==
    /\ e.entryType = request.entryType
    /\ e.notes = request.notes
    /\ e.medicName = (IF request.medicName = "" THEN "Demo Medic" ELSE request.medicName)
    /\ e.medicId = (IF request.medicId = <<>>
                    THEN <<"m", "o", "c", "k", "-", "m", "e", "d", "i", "c", "-", "4", "5", "6">>
                    ELSE request.medicId)
    /\ getTime(e.createdAt) = t

\* the record of profile id holds entry e
RecordHolds(histories, id, e) ==
    LET r == getMedicalPass(histories, suspensionByFighter, id).result
    IN r.tag = "success" /\ Count(r.data.history, e) = 1

\* C24: when an addMedicalEntry(id, request) appends, the entry it built has
\* the request's entryType and notes, the request's author name and id where
\* supplied and 'Demo Medic' and the mock medic's profile id where missing,
\* and the time of that moment as its creation time; the record of id holds
\* the entry, and so does the record the call returns.  The entry a request
\* of any of the six entry types would have appended at that moment has these
\* fields too and the stored history would hold it.
C24_EntryFromRequest ==
    [][\A t \in Tasks :
          /\ (AddMedicalEntryPush(t) /\ tasks'[t].pc = "read") =>
                 /\ EntryOf(tasks'[t].entry, tasks[t].request, now)
                 /\ RecordHolds(medicalHistoryByFighter', tasks[t].profileId, tasks'[t].entry)
                 /\ \A request \in EntryRequests :
                        LET out == addMedicalEntry(medicalHistoryByFighter,
                                                   tasks[t].profileId, request, now)
                        IN /\ out.result.tag # "throw"
                           /\ EntryOf(out.entry, request, now)
                           /\ Count(out.histories[tasks[t].profileId], out.entry) = 1
          /\ (/\ MedicalPassReturn(t)
              /\ tasks[t].op = "addMedicalEntry"
              /\ returned'.result.tag = "success") =>
                 /\ Count(returned'.result.data.history, tasks[t].entry) = 1
                 /\ \E request \in AddRequests :
                        \E at \in ClockTimes : EntryOf(tasks[t].entry, request, at)]_vars

\* an addMedicalEntry whose request names no author has returned a record
\* with its entry under the placeholder author, and a later one whose request
\* names its author a record with both
C24_Witness ==
    /\ returned.op = "addMedicalEntry"
    /\ returned.result.tag = "success"
    /\ returned.request.medicName = "Dr. A"
    /\ Count(returned.result.data.history, returned.entry) = 1
    /\ returned.entry.medicName = "Dr. A"
    /\ \E i \in 1..Len(returned.result.data.history) :
           /\ returned.result.data.history[i].medicName = "Demo Medic"
           /\ returned.result.data.history[i].medicId = MOCK_MEDIC_PROFILE.profileId
           /\ returned.result.data.history[i].notes = "Knee"
           /\ getTime(returned.result.data.history[i].createdAt)
                  < getTime(returned.entry.createdAt)

\* the properties of an object other than key
Others(obj, key) == [k \in DOMAIN obj \ {key} |-> obj[k]]

\* C29: an addMedicalEntry(id, ...) leaves every suspension slot and the
\* history of every other profile id as they were; a setSuspension(id, ...)
\* leaves every history and the suspension slot of every other profile id as
\* they were; a getMedicalPass leaves the entries of every profile id and
\* every suspension slot as they were; a call that only begins leaves the
\* store as it was.
C29_OwnSlotOnly ==
    [][\A t \in Tasks :
          /\ AddMedicalEntryPush(t) =>
                 /\ suspensionByFighter' = suspensionByFighter
                 /\ Others(medicalHistoryByFighter', tasks[t].profileId)
                        = Others(medicalHistoryByFighter, tasks[t].profileId)
          /\ SetSuspensionWrite(t) =>
                 /\ medicalHistoryByFighter' = medicalHistoryByFighter
                 /\ Others(suspensionByFighter', tasks[t].profileId)
                        = Others(suspensionByFighter, tasks[t].profileId)
          /\ MedicalPassReturn(t) =>
                 /\ suspensionByFighter' = suspensionByFighter
                 /\ Others(medicalHistoryByFighter', tasks[t].profileId)
                        = Others(medicalHistoryByFighter, tasks[t].profileId)
                 /\ Stored(medicalHistoryByFighter', tasks[t].profileId)
                        = Stored(medicalHistoryByFighter, tasks[t].profileId)
          /\ (GetMedicalPassStart(t) \/ AddMedicalEntryStart(t) \/ SetSuspensionStart(t)) =>
                 /\ medicalHistoryByFighter' = medicalHistoryByFighter
                 /\ suspensionByFighter' = suspensionByFighter]_vars

\* an addMedicalEntry has returned the record of a fighter while the demo
\* fighter has its seed entries and a suspension that a setSuspension wrote
C29_Witness ==
    /\ returned.op = "addMedicalEntry"
    /\ returned.result.tag = "success"
    /\ returned.profileId # MOCK_FIGHTER_ID
    /\ Len(medicalHistoryByFighter[returned.profileId]) = 1
    /\ medicalHistoryByFighter[MOCK_FIGHTER_ID] = SeedHistory
    /\ suspensionByFighter[MOCK_FIGHTER_ID] \in SuspensionInputs \ {Undefined}

-----------------------------------------------------------------------------
(* Properties of the list normaliser and the request formatters *)

\* every item of the list is a string
PlainStrings(items) ==
    items.t = "list" /\ \A i \in 1..Len(items.v) : items.v[i].t = "string"

\* the records of a formatted list; none when the list is absent
Records(request) == IF request = Undefined THEN <<>> ELSE request.v

\* the formatted list holds one record for each of strs, in order, whose
\* value is the string without the white space around it, and of the
\* records of an address list the first only is the default
RecordPerString(kind, request, strs) ==
    /\ Len(Records(request)) = Len(strs)
    /\ \A i \in 1..Len(strs) :
           /\ Lookup(Records(request)[i].v, "value") = Str(Trim(strs[i].v))
           /\ (kind = "addresses") =>
                  Lookup(Records(request)[i].v, "isDefault") = Bool(i = 1)

\* a list of plain strings has gone round
WentRound == returned.op = "normalise" /\ returned.pc = "again"

\* C25 as stated: a list of plain strings is formatted, after normalising,
\* into one record per string, in order, whose value is the string's text,
\* the first address being the only default, and normalising the formatted
\* list gives the display list again.
C25_RecordPerString ==
    (WentRound /\ PlainStrings(returned.items)) =>
        /\ RecordPerString(returned.kind, returned.request, returned.items.v)
        /\ returned.again = returned.display

\* C25: a list of plain strings is formatted, after normalising, into one
\* record per string that is not blank, in order, whose value is the string
\* without the white space around it, the first address being the only
\* default; the display list holds these same texts, none when every string
\* is blank, and normalising the formatted list gives the display list again.
C25_RecordPerNonBlankString ==
    (WentRound /\ PlainStrings(returned.items)) =>
        LET kept == SelectSeq(returned.items.v, NonBlankString) IN
        /\ RecordPerString(returned.kind, returned.request, kept)
        /\ (Len(kept) = 0) <=> (returned.display = Undefined)
        /\ (Len(kept) > 0) =>
               /\ Len(returned.display.v) = Len(kept)
               /\ \A i \in 1..Len(kept) : returned.display.v[i] = Trim(kept[i].v)
        /\ returned.again = returned.display

\* an address list of three strings, one of them blank and one with white
\* space around it, has gone round as two records, the second not the default
C25_Witness ==
    /\ WentRound
    /\ returned.kind = "addresses"
    /\ PlainStrings(returned.items)
    /\ Len(returned.items.v) = 3
    /\ \E i \in 1..3 : ~NonBlankString(returned.items.v[i])
    /\ \E i \in 1..3 : NonBlankString(returned.items.v[i])
                           /\ Trim(returned.items.v[i].v) # returned.items.v[i].v
    /\ Len(Records(returned.request)) = 2
    /\ Lookup(returned.request.v[2].v, "isDefault") = Bool(FALSE)
    /\ returned.again = returned.display

\* the positions of a list whose item the api.ts normaliser turns into a
\* string that is not blank
KeptByApi(items) == {i \in 1..Len(items) : Len(Trim(normaliseItem(items[i]))) > 0}

\* the same for the mockData.ts normaliser
KeptByMock(items) == {i \in 1..Len(items) : Len(Trim(mockNormaliseItem(items[i]))) > 0}

\* display is what the normaliser may return for items of which it keeps the
\* positions kept: absent when it keeps none, else a list without a blank
\* element that has the kept strings at their rank
NormalisedAs(display, items, kept) ==
    /\ display # List(<<>>)
    /\ (items = Undefined) => display = Undefined
    /\ (items # Undefined /\ kept = {}) => display = Undefined
    /\ (items # Undefined /\ kept # {}) =>
           /\ display.t = "list"
           /\ Len(display.v) = Cardinality(kept)
           /\ \A n \in 1..Len(display.v) :
                  /\ Len(display.v[n]) > 0
                  /\ Trim(display.v[n]) = display.v[n]
           /\ \A i \in kept :
                  items.v[i].t = "string" =>
                      display.v[Cardinality({j \in kept : j <= i})] = Trim(items.v[i].v)

\* C26: what normaliseValueList returns, in api.ts and in mockData.ts, is
\* never an empty list and never holds a blank element; it is absent when the
\* input is absent or every item normalises to blank, and otherwise holds
\* the items that are not blank, in the order of the input.
C26_NeverEmptyNeverBlank ==
    (returned.op = "normalise" /\ returned.pc # "input") =>
        /\ NormalisedAs(returned.display, returned.items,
                        IF returned.items = Undefined THEN {}
                        ELSE KeptByApi(returned.items.v))
        /\ NormalisedAs(returned.mockDisplay, returned.items,
                        IF returned.items = Undefined THEN {}
                        ELSE KeptByMock(returned.items.v))
        /\ (returned.pc = "again") =>
               NormalisedAs(returned.again, returned.request,
                            IF returned.request = Undefined THEN {}
                            ELSE KeptByApi(returned.request.v))

\* a list of a blank string, an undefined item and an empty array has been
\* normalised: api.ts returns no list, mockData.ts the list of the one
\* string it makes of the empty array
C26_Witness ==
    /\ returned.op = "normalise"
    /\ returned.pc = "display"
    /\ returned.items # Undefined
    /\ Len(returned.items.v) = 3
    /\ \E i \in 1..3 : returned.items.v[i] = Str(<<" ">>)
    /\ \E i \in 1..3 : returned.items.v[i] = List(<<>>)
    /\ \E i \in 1..3 : returned.items.v[i] = Undefined
    /\ returned.display = Undefined
    /\ returned.mockDisplay = List(<<<<"[", "]">>>>)

-----------------------------------------------------------------------------
(* Properties of failed sign-ins and of the signed-out session *)

\* C27: no step of a signInWithEmailAndPassword that fails changes the
\* session: not its start, not the answer to its sign-in call, whether an
\* error response or a thrown error, and not the failed token exchange;
\* accessToken, refreshToken and tokenExpiresAt stay what they were, present
\* or absent.
C27_FailedSignInKeepsSession ==
    [][\A t \in Tasks :
          /\ SignInStart(t) => firebaseAuthService' = firebaseAuthService
          /\ SignInReply(t) => firebaseAuthService' = firebaseAuthService
          /\ (SignInExchangeReply(t) /\ returned'.result.tag # "success") =>
                 /\ returned'.result.tag = "failure"
                 /\ firebaseAuthService' = firebaseAuthService]_vars

\* a sign-in whose token exchange the provider refused has returned a
\* failure, and the session holds the tokens and the expiry, still ahead, of
\* an earlier sign-in
C27_Witness ==
    /\ returned.op = "signIn"
    /\ Len(returned.calls) = 2
    /\ returned.reply.kind = "error"
    /\ returned.result.tag = "failure"
    /\ HasSession(firebaseAuthService)
    /\ Remaining > FIVE_MINUTES

\* the step is the successful end of a sign-in
SignInSucceeds ==
    \E t \in Tasks : SignInExchangeReply(t) /\ returned'.result.tag = "success"

\* C28: signOut leaves the session without a refresh token; it stays without
\* one through every step that is not the successful end of a sign-in, also
\* through the successful answer to a refresh exchange issued before the
\* signOut; and a getBearerToken begun on such a session returns null
\* without a call.
C28_SignedOutUntilSignIn ==
    [][/\ SignOut => firebaseAuthService'.refreshToken = NULL
       /\ (firebaseAuthService.refreshToken = NULL /\ ~SignInSucceeds) =>
              firebaseAuthService'.refreshToken = NULL
       /\ \A t \in Tasks :
              (firebaseAuthService.refreshToken = NULL /\ GetBearerTokenStart(t)) =>
                  /\ tasks'[t].pc = "idle"
                  /\ returned'.op = "getBearerToken"
                  /\ returned'.result.tag = "return"
                  /\ returned'.result.value = NULL
                  /\ returned'.calls = <<>>]_vars

\* a refresh exchange issued before a signOut has succeeded after it and left
\* its access token in the session, and a getBearerToken begun then has
\* returned null without a call
C28_Witness ==
    /\ firebaseAuthService.refreshToken = NULL
    /\ TruthyToken(firebaseAuthService.accessToken)
    /\ TruthyTime(firebaseAuthService.tokenExpiresAt)
    /\ Remaining > FIVE_MINUTES
    /\ returned.op = "getBearerToken"
    /\ returned.calls = <<>>
    /\ returned.result.value = NULL

-----------------------------------------------------------------------------
(* Properties of login *)

\* the characters of the email a login was given
EmailOf(k) == OrEmpty(k.email)

\* C23: a login whose email contains "medic" issues no call, to the identity
\* provider or to the backend, at any point, and returns success with a
\* profile whose derived role is medic and whose scopes hold the medic
\* marker.
C23_MedicLoginIsMock ==
    \A k \in Visible :
        (k.op = "login" /\ Includes(EmailOf(k), medicWord)) =>
            /\ k.calls = <<>>
            /\ k.pc \in {"mock", "done"}
            /\ (k.pc = "done") =>
                   /\ k.result.tag = "success"
                   /\ k.result.data.profile.userType = "medic"
                   /\ \E i \in 1..Len(k.result.data.profile.scopes) :
                          k.result.data.profile.scopes[i] = MedicMarker

\* a login with a medic's email has returned the medic profile without a
\* call, the session being as absent as before
C23_Witness ==
    /\ returned.op = "login"
    /\ Includes(EmailOf(returned), medicWord)
    /\ returned.calls = <<>>
    /\ returned.result.tag = "success"
    /\ returned.result.data.profile.userType = "medic"
    /\ returned.result.data.user.uid = MOCK_MEDIC_PROFILE.profileId
    /\ firebaseAuthService = NoSession

\* C30: every login that is sent to the mock service, its email containing
\* 'medic' or 'doctor' in any letter case, returns the medic profile, never
\* the fighter profile.
C30_MockRouteIsMedic ==
    (returned.op = "login" /\ returned.route = "mock") =>
        /\ Includes(toLowerCase(EmailOf(returned)), medicWord)
               \/ Includes(toLowerCase(EmailOf(returned)), doctorWord)
        /\ returned.result.tag = "success"
        /\ returned.result.data.profile.userType = "medic"
        /\ returned.result.data.profile.profileId = MOCK_MEDIC_PROFILE.profileId

====
